---- MODULE Spec2Model ----
(***************************************************************************)
(* Hidey: the content-side BlurEngine (two revisions kept in the           *)
(* repository), the background store that feeds it, and the URL pattern    *)
(* matcher.  Strings are sequences of one-character strings.               *)
(***************************************************************************)
EXTENDS Integers, Sequences, FiniteSets, TLC

VARIABLES
    mPat,       \* matcher input: the pattern handed to urlMatchesPattern
    mUrl,       \* matcher input: the URL handed to urlMatchesPattern
    mPhase,     \* "input" before the call, "done" after it
    mRes        \* "none" | "true" | "false": what urlMatchesPattern returned

VARIABLES
    rev,            \* "A": src/content/blur-engine.ts with src/background/
                    \* background.ts; "B": the other revision kept in the
                    \* repository (unnamed/part_001 with unnamed/part_007)
    rules,          \* chrome.storage.sync: rules
    regions,        \* chrome.storage.sync: regions
    globalEnabled,  \* chrome.storage.sync: globalEnabled
    siteSettings,   \* chrome.storage.sync: siteSettings[host of the page]
    inbox,          \* messages sent to the tab and not yet delivered
    pc,             \* BlurEngine.init: "init" (storage read issued),
                    \* "read" (result available), "ready" (observing)
    loadResult,     \* what the storage read of loadState returned
    currentRules,   \* BlurEngine.currentRules
    currentRegions, \* BlurEngine.currentRegions
    enabled,        \* BlurEngine.enabled
    blurIntensity,  \* BlurEngine.blurIntensity
    hoverToUnblur,  \* BlurEngine.hoverToUnblur (revision A only)
    debounceTimer,  \* BlurEngine.debounceTimer is pending
    els,            \* the page's elements
    overlays,       \* the .hidey-region-overlay elements, in DOM order
    frames,         \* requestAnimationFrame callbacks of applyBlurInBatches
    pointer,        \* the element under the pointer, 0 if none
    events          \* how many user and page events have happened

VARIABLES
    rtPhase,    \* round trip of one element: "idle" | "before" | "redacted" |
                \* "clear"
    rtBefore,   \* the element as it was before applyBlurToElement
    rtEl        \* the element

VARIABLES
    scrollX,             \* window.scrollX
    scrollY,             \* window.scrollY
    positionUpdateTimer  \* startObserving's positionUpdateTimer: "null",
                         \* "pending", or "fired" (the id of a timer that ran)

VARIABLES
    tabUrl,              \* the URL of the tab whose site settings are followed
    siteSettingsByHost,  \* chrome.storage.sync: siteSettings, by its keys
    siteInbox,           \* UPDATE_SETTINGS messages sent to that tab
    sitePhase,           \* the tab's engine: "idle" | "init" | "loaded"
    siteBlur             \* the tab's BlurEngine.blurIntensity

VARIABLES
    innerWidth,         \* window.innerWidth
    innerHeight,        \* window.innerHeight
    fbPhase,            \* FloatingButton.init: "idle" | "init" | "ready"
    currentPosition,    \* FloatingButton.currentPosition
    buttonStyle,        \* left and top of the button's inline style
    savedPosition,      \* chrome.storage.sync: floatingButtonPositions[hostname],
                        \* <<>> if there is none, else <<the position>>
    isDragging,         \* FloatingButton.isDragging
    dragOffset,         \* FloatingButton.dragOffset
    dragStartPosition,  \* FloatingButton.dragStartPosition
    hasDragged,         \* FloatingButton.hasDragged
    positionChanged,    \* a storage change of the positions is to be delivered
    loadPositionPending \* a loadPosition started by the change listener waits
                        \* for its storage read

VARIABLES
    clock,            \* the time, in ms
    timeouts,         \* the pending timeouts of the body observer's callback:
                      \* records [id, due]
    debounceTimerId,  \* BlurEngine.debounceTimer: 0 for null, else an id
    timeoutsSet,      \* how many timeouts the callback has set
    lastMutationAt,   \* when the observer last delivered records it acts on,
                      \* -1 if it never did
    passesInBurst     \* the applySelectorBlur passes of the timeouts since then

VARIABLES
    isActive,   \* UnblurDetector.isActive: the unblur picker (delete mode) is on
    handlers    \* the background's handler invocations that wait for chrome.storage,
                \* in the order of the operations they wait for

matchVars == <<mPat, mUrl, mPhase, mRes>>
roundTripVars == <<rtPhase, rtBefore, rtEl>>
scrollVars == <<scrollX, scrollY, positionUpdateTimer>>
siteVars == <<tabUrl, siteSettingsByHost, siteInbox, sitePhase, siteBlur>>
viewportVars == <<innerWidth, innerHeight>>
debounceVars == <<clock, timeouts, debounceTimerId, timeoutsSet, lastMutationAt,
                  passesInBurst>>
pickerVars == <<isActive, handlers>>
buttonVars == <<fbPhase, currentPosition, buttonStyle, savedPosition, isDragging,
                dragOffset, dragStartPosition, hasDragged, positionChanged,
                loadPositionPending>>
\* The variables that only some of the specifications move.
unitVars == <<roundTripVars, scrollVars, siteVars, viewportVars, buttonVars,
              debounceVars, pickerVars>>
storeVars == <<rules, regions, globalEnabled, siteSettings>>
engineVars == <<pc, loadResult, currentRules, currentRegions, enabled,
                blurIntensity, hoverToUnblur, debounceTimer>>
pageVars == <<els, overlays, frames, pointer>>
vars == <<matchVars, unitVars, events, rev, storeVars, inbox, engineVars, pageVars>>

(***************************************************************************)
(* Strings                                                                 *)
(***************************************************************************)

\* String.prototype.replace(/c/g, rep): every occurrence of the character c
\* is replaced by the characters of rep.
RECURSIVE ReplaceAll(_, _, _)
ReplaceAll(s, c, rep) ==
    IF s = <<>> THEN <<>>
    ELSE (IF Head(s) = c THEN rep ELSE <<Head(s)>>) \o ReplaceAll(Tail(s), c, rep)

(***************************************************************************)
(* The part of JavaScript's RegExp the matchers use: anchors, literals,    *)
(* backslash escapes, ".", groups, and the quantifiers "*" and "?".        *)
(***************************************************************************)

\* Depth of parentheses after reading re[1..i]; -1 once a ")" closes nothing.
RECURSIVE ParenDepth(_, _)
ParenDepth(re, i) ==
    IF i = 0 THEN 0
    ELSE LET d == ParenDepth(re, i - 1) IN
         IF d < 0 THEN -1
         ELSE IF i > 1 /\ re[i - 1] = "\\" /\ (i = 2 \/ re[i - 2] # "\\") THEN d
         ELSE IF re[i] = "(" THEN d + 1
         ELSE IF re[i] = ")" THEN d - 1
         ELSE d

\* new RegExp(source) throws a SyntaxError on an unterminated group or an
\* unmatched ")"; RegexCompiles is FALSE exactly then.
RegexCompiles(re) == ParenDepth(re, Len(re)) = 0

\* Index of the ")" that closes the "(" at position lo.
RECURSIVE CloseOf(_, _, _)
CloseOf(re, i, depth) ==
    IF i > Len(re) THEN Len(re) + 1
    ELSE IF re[i] = "\\" THEN CloseOf(re, i + 2, depth)
    ELSE IF re[i] = "(" THEN CloseOf(re, i + 1, depth + 1)
    ELSE IF re[i] = ")" THEN (IF depth = 1 THEN i ELSE CloseOf(re, i + 1, depth - 1))
    ELSE CloseOf(re, i + 1, depth)

\* One past the last character of the atom that starts at re[lo].
AtomEnd(re, lo) ==
    IF re[lo] = "\\" THEN lo + 2
    ELSE IF re[lo] = "(" THEN CloseOf(re, lo, 0) + 1
    ELSE lo + 1

\* Ends(re, lo, hi, s, P): the input positions (characters consumed) that
\* re[lo..hi-1] can reach when started at any position of P.
RECURSIVE Ends(_, _, _, _, _)
RECURSIVE AtomStep(_, _, _, _)
RECURSIVE StarClosure(_, _, _, _)

AtomStep(re, lo, s, P) ==
    IF re[lo] = "\\"
      THEN {q + 1 : q \in {p \in P : p < Len(s) /\ s[p + 1] = re[lo + 1]}}
    ELSE IF re[lo] = "."
      THEN {q + 1 : q \in {p \in P : p < Len(s)}}
    ELSE IF re[lo] = "("
      THEN Ends(re, lo + 1, CloseOf(re, lo, 0), s, P)
    ELSE {q + 1 : q \in {p \in P : p < Len(s) /\ s[p + 1] = re[lo]}}

StarClosure(re, lo, s, P) ==
    LET Q == P \cup AtomStep(re, lo, s, P) IN
    IF Q = P THEN P ELSE StarClosure(re, lo, s, Q)

Ends(re, lo, hi, s, P) ==
    IF lo >= hi \/ P = {} THEN P
    ELSE LET e == AtomEnd(re, lo)
             quant == IF e < hi /\ re[e] \in {"*", "?"} THEN re[e] ELSE "1"
             after == IF quant = "*" THEN StarClosure(re, lo, s, P)
                      ELSE IF quant = "?" THEN P \cup AtomStep(re, lo, s, P)
                      ELSE AtomStep(re, lo, s, P)
         IN Ends(re, IF quant = "1" THEN e ELSE e + 1, hi, s, after)

\* RegExp.prototype.test for a source of the form ^...$ that compiled.
RegexTest(re, s) == Len(s) \in Ends(re, 2, Len(re), s, {0})

(***************************************************************************)
(* BlurEngine.urlMatchesPattern (the same text in both revisions)          *)
(***************************************************************************)

\* The regex source if the dots of the pattern were left unescaped.
EngineRegexSourceDotsUnescaped(pattern) ==
    <<"^">> \o ReplaceAll(ReplaceAll(pattern, "*", <<".", "*">>), "?", <<"\\", "?">>)
            \o <<"$">>

\* The regex source built from a pattern: dots escaped, "*" to ".*",
\* "?" escaped, anchored at both ends.
EngineRegexSource(pattern) ==
    <<"^">>
    \o ReplaceAll(ReplaceAll(ReplaceAll(pattern, ".", <<"\\", ".">>),
                             "*", <<".", "*">>),
                  "?", <<"\\", "?">>)
    \o <<"$">>

\* new RegExp(source).test(s): "throw" when the source does not compile.
JsRegexTest(re, s) ==
    IF ~RegexCompiles(re) THEN "throw"
    ELSE IF RegexTest(re, s) THEN "true" ELSE "false"

\* try { return <outcome> } catch { return false }
CatchReturnsFalse(outcome) == IF outcome = "throw" THEN "false" ELSE outcome

\* What a call of urlMatchesPattern does: "true", "false", or "throw" if an
\* exception left it.
urlMatchesPatternResult(url, pattern) ==
    CatchReturnsFalse(JsRegexTest(EngineRegexSource(pattern), url))

urlMatchesPattern(url, pattern) == urlMatchesPatternResult(url, pattern) = "true"

(***************************************************************************)
(* Inputs of the matcher specification                                     *)
(***************************************************************************)

MaxPatLen == 3
MaxUrlLen == 3

PatAlphabet == {"a", ".", "*", "?", "("}
UrlAlphabet == {"a", ".", "?", "b"}

SeqsUpTo(S, n) == UNION {[1..k -> S] : k \in 0..n}

Scheme == <<"h", "t", "t", "p", "s", ":", "/", "/">>
Www == <<"w", "w", "w", ".">>
Hosts == {<<"e", ".", "c">>, <<"a", ".", "e", ".", "c">>}
Paths == {<<"/">>, <<"/", "p">>, <<"/", "p", "/", "q">>}

\* The pattern a rule written for host h carries, and a page URL on h.
PatternFor(h) == Scheme \o h \o <<"/", "*">>
UrlOn(h, p) == Scheme \o h \o p

HostVariants(h) == {h, Www \o h}

PatternInputs ==
    SeqsUpTo(PatAlphabet, MaxPatLen)
    \cup {PatternFor(v) : v \in UNION {HostVariants(h) : h \in Hosts}}

UrlInputs ==
    SeqsUpTo(UrlAlphabet, MaxUrlLen)
    \cup {UrlOn(v, p) : v \in UNION {HostVariants(h) : h \in Hosts}, p \in Paths}

(***************************************************************************)
(* new URL(...) for the https URLs of this model, getUrlPattern, and the   *)
(* background's urlMatchesPattern                                          *)
(***************************************************************************)

\* The least position from i on at which s has a character of S, Len(s) + 1
\* if there is none.
RECURSIVE FirstOf(_, _, _)
FirstOf(s, S, i) ==
    IF i > Len(s) THEN Len(s) + 1
    ELSE IF s[i] \in S THEN i
    ELSE FirstOf(s, S, i + 1)

\* String.prototype.startsWith
StartsWith(s, prefix) ==
    Len(s) >= Len(prefix) /\ SubSeq(s, 1, Len(prefix)) = prefix

\* new URL(url): the authority runs from the scheme to the first "/", "?" or
\* "#", the hostname is the authority without its port, the pathname runs
\* to the first "?" or "#" and is "/" when empty.  valid is FALSE where the
\* constructor throws.
UrlAuthorityEnd(url) == FirstOf(url, {"/", "?", "#"}, Len(Scheme) + 1)

UrlAuthority(url) == SubSeq(url, Len(Scheme) + 1, UrlAuthorityEnd(url) - 1)

UrlHostname(url) ==
    SubSeq(UrlAuthority(url), 1, FirstOf(UrlAuthority(url), {":"}, 1) - 1)

UrlPathname(url) ==
    LET a == UrlAuthorityEnd(url)
        e == FirstOf(url, {"?", "#"}, a)
    IN IF e = a THEN <<"/">> ELSE SubSeq(url, a, e - 1)

UrlValid(url) == StartsWith(url, Scheme) /\ UrlHostname(url) # <<>>

\* hostname.startsWith('www.') ? hostname.substring(4) : hostname
StripWww(hostname) ==
    IF StartsWith(hostname, Www) THEN SubSeq(hostname, 5, Len(hostname))
    ELSE hostname

\* `${url.protocol}//${hostname}${url.pathname}*` with the www. prefix of the
\* hostname removed (getUrlPattern of the background and of DragBlur).
UrlPatternOf(url) ==
    Scheme \o StripWww(UrlHostname(url)) \o UrlPathname(url) \o <<"*">>

\* The background's getUrlPattern: the URL itself if new URL throws.
getUrlPattern(url) == IF UrlValid(url) THEN UrlPatternOf(url) ELSE url

\* normalizeHostnameForMatching: the first occurrence of the hostname is
\* replaced by the hostname without www.; the string itself if new URL
\* throws.
normalizeHostnameForMatching(urlString) ==
    IF UrlValid(urlString) /\ StartsWith(UrlHostname(urlString), Www)
    THEN Scheme \o SubSeq(urlString, Len(Scheme) + 5, Len(urlString))
    ELSE urlString

\* The replace that makes www. optional: after "https://", where at least
\* one character other than "/" and "*" follows, "(www\.)?" is inserted.
\* The patterns of this model contain the scheme once, at their start.
MakeWwwOptional(regexPattern) ==
    IF /\ StartsWith(regexPattern, Scheme)
       /\ Len(regexPattern) > Len(Scheme)
       /\ regexPattern[Len(Scheme) + 1] \notin {"/", "*"}
    THEN Scheme \o <<"(", "w", "w", "w", "\\", ".", ")", "?">>
                \o SubSeq(regexPattern, Len(Scheme) + 1, Len(regexPattern))
    ELSE regexPattern

\* The regex source the background builds from a pattern.
BackgroundRegexSource(pattern) ==
    <<"^">>
    \o MakeWwwOptional(
          ReplaceAll(ReplaceAll(ReplaceAll(normalizeHostnameForMatching(pattern),
                                           ".", <<"\\", ".">>),
                                "*", <<".", "*">>),
                     "?", <<"\\", "?">>))
    \o <<"$">>

\* The background's urlMatchesPattern: the regex is tried on the normalized
\* URL and on the URL; an exception gives false.
backgroundUrlMatchesPattern(url, pattern) ==
    LET re == BackgroundRegexSource(pattern) IN
    /\ RegexCompiles(re)
    /\ (RegexTest(re, normalizeHostnameForMatching(url)) \/ RegexTest(re, url))

(***************************************************************************)
(* The page, the rules and the regions of the engine specification         *)
(***************************************************************************)

NumElems == 2
MaxRules == 2
MaxRegions == 2
MaxInFlight == 1
MaxFrames == 2
MaxListeners == 2
MaxEvents == 4
MaxScroll == 2

BLUR_ENGINE_DEFAULT_INTENSITY == 8

Elems == 1..NumElems
Classes == {"a", "b"}

PageHost == <<"e", ".", "c">>
OtherHost == <<"a", ".", "e", ".", "c">>
\* window.location.href of the tab
PageUrl == UrlOn(PageHost, <<"/", "p">>)

PatPage == PatternFor(PageHost)
PatOther == PatternFor(OtherHost)
\* a pattern whose regex source does not compile
PatBad == Scheme \o PageHost \o <<"/", "(", "*">>

\* the pattern the background gives a rule for an element picked on the page
PatPicked == getUrlPattern(PageUrl)

\* this.urlMatchesPattern(window.location.href, pattern) for the patterns the
\* rules and regions of this model carry, tabulated once.
\* a site of getDefaultRules (as https://web.telegram.org/*) and a tab on it
DefaultSiteHost == <<"t", ".", "o">>
DefaultSiteUrl == UrlOn(DefaultSiteHost, <<"/", "k">>)
PatDefaultSite == PatternFor(DefaultSiteHost)

PagePatterns == {PatPage, PatOther, PatBad, PatPicked, PatDefaultSite}
MatchesPageTable == [p \in PagePatterns |-> urlMatchesPattern(PageUrl, p)]
matchesPage(pattern) == MatchesPageTable[pattern]

\* The background's urlMatchesPattern(url of the page, pattern), tabulated.
BackgroundMatchesPageTable ==
    [p \in PagePatterns |-> backgroundUrlMatchesPattern(PageUrl, p)]
backgroundMatchesPage(pattern) == BackgroundMatchesPageTable[pattern]

\* Inline style values of the filter property.
NoFilter == [k |-> "unset", px |-> 0]
PageFilter == [k |-> "page", px |-> 0]      \* a filter the page authored
FilterNone == [k |-> "none", px |-> 0]      \* filter: none
Blur(n) == [k |-> "blur", px |-> n]         \* filter: blur(<n>px)

\* An element the engine has never touched.
FreshElement(c, f) ==
    [inDom |-> TRUE, cls |-> c, marker |-> FALSE, blurred |-> FALSE,
     filter |-> f, transition |-> "unset", origFilter |-> NoFilter,
     hoverAttr |-> FALSE, hovering |-> FALSE, listeners |-> FALSE,
     styleObs |-> FALSE]

\* window.getComputedStyle(element).filter: the inline value, else none.
ComputedFilter(el) == IF el.filter = NoFilter THEN FilterNone ELSE el.filter

\* String.prototype.includes('blur') on a filter value
IncludesBlur(f) == f.k = "blur"

\* document.querySelectorAll(selector): "throw" for a selector that is not
\* valid CSS, else the matching elements in document order.  A selector
\* ".c" matches the elements of class c.
SelectorValid(sel) == sel # ""
SelectorMatches(sel, el) == el.inDom /\ sel = "." \o el.cls

RECURSIVE InOrder(_, _)
InOrder(S, i) ==
    IF i > NumElems THEN <<>>
    ELSE (IF i \in S THEN <<i>> ELSE <<>>) \o InOrder(S, i + 1)

querySelectorAll(sel, E) ==
    InOrder({e \in Elems : SelectorMatches(sel, E[e])}, 1)

Range(q) == {q[i] : i \in 1..Len(q)}

(***************************************************************************)
(* Revision A: per-element operations (src/content/blur-engine.ts)         *)
(***************************************************************************)

\* updateHoverToUnblur: drop the listeners it added, add new ones if the
\* setting is on, else remove the data-hidey-hover-unblur attribute.
updateHoverToUnblur(el, hover) ==
    [el EXCEPT !.listeners = hover, !.hoverAttr = hover]

\* ensureBlurApplied (A): reads the computed filter.
ensureBlurAppliedA(el, px) ==
    IF IncludesBlur(ComputedFilter(el)) THEN el ELSE [el EXCEPT !.filter = Blur(px)]

applyBlurToElementA(el, px, hover) ==
    LET originalFilter == ComputedFilter(el)
        first == [el EXCEPT
                    !.marker = TRUE,
                    !.blurred = TRUE,
                    !.origFilter =
                        IF originalFilter.k # "none" /\ el.origFilter = NoFilter
                        THEN originalFilter ELSE el.origFilter,
                    !.styleObs = TRUE]
        marked == IF ~el.marker THEN first ELSE ensureBlurAppliedA(el, px)
        styled == [marked EXCEPT !.filter = Blur(px), !.transition = "engine"]
    IN updateHoverToUnblur(styled, hover)

removeBlurFromElementA(el) ==
    [el EXCEPT
        !.marker = FALSE,
        !.blurred = FALSE,
        !.filter = el.origFilter,
        !.origFilter = NoFilter,
        !.transition = "unset",
        !.listeners = FALSE,
        !.styleObs = FALSE]

(***************************************************************************)
(* Revision B: per-element operations (unnamed/part_001)                   *)
(***************************************************************************)

\* ensureBlurApplied (B): reads the inline filter, skips a hovered element.
ensureBlurAppliedB(el, px) ==
    IF el.hovering \/ IncludesBlur(el.filter) THEN el
    ELSE [el EXCEPT !.filter = Blur(px)]

applyBlurToElementB(el, px) ==
    LET marked ==
            IF ~el.marker /\ ~el.hovering
            THEN [el EXCEPT !.marker = TRUE, !.blurred = TRUE,
                            !.filter = Blur(px), !.transition = "engine"]
            ELSE IF el.marker /\ ~el.hovering THEN ensureBlurAppliedB(el, px)
            ELSE el
    IN [marked EXCEPT !.listeners = TRUE]

removeBlurFromElementB(el) ==
    [el EXCEPT !.marker = FALSE, !.blurred = FALSE,
               !.filter = NoFilter, !.transition = "unset"]

\* removeAllBlur, the loop over [data-hidey-blur] (same in both revisions)
stripMarked(el) ==
    IF el.inDom /\ el.marker
    THEN [el EXCEPT !.marker = FALSE, !.blurred = FALSE, !.filter = NoFilter]
    ELSE el

(***************************************************************************)
(* Selector reconciliation                                                 *)
(***************************************************************************)

\* The selectors of the rules in rs, in order.
RECURSIVE AllSelectors(_)
AllSelectors(rs) ==
    IF rs = <<>> THEN <<>> ELSE Head(rs).selectors \o AllSelectors(Tail(rs))

\* Revision A, applySelectorBlur: the union of the matches of every selector
\* of every current rule (an invalid selector is caught and skipped); marked
\* elements outside it are cleared, the elements in it are blurred.
elementsToBlurA(E, rs) ==
    UNION {Range(querySelectorAll(sel, E)) :
             sel \in {x \in Range(AllSelectors(rs)) : SelectorValid(x)}}

applySelectorBlurA(E, rs, px, hover) ==
    LET toBlur == elementsToBlurA(E, rs) IN
    [e \in Elems |->
        IF e \in toBlur THEN applyBlurToElementA(E[e], px, hover)
        ELSE IF E[e].inDom /\ E[e].marker THEN removeBlurFromElementA(E[e])
        ELSE E[e]]

\* Revision B, applySelectorBlur: the first current rule whose pattern matches
\* the page URL; each of its selectors is queried (no try/catch) and its
\* matches handed to applyBlurInBatches.
RECURSIVE FirstMatching(_)
FirstMatching(rs) ==
    IF rs = <<>> THEN <<>>
    ELSE IF matchesPage(Head(rs).urlPattern) THEN <<Head(rs)>>
    ELSE FirstMatching(Tail(rs))

\* The batches the selectors sels schedule, up to the first invalid one.
RECURSIVE BatchesOf(_, _)
BatchesOf(sels, E) ==
    IF sels = <<>> \/ ~SelectorValid(Head(sels)) THEN <<>>
    ELSE LET found == querySelectorAll(Head(sels), E) IN
         (IF found = <<>> THEN <<>> ELSE <<found>>) \o BatchesOf(Tail(sels), E)

\* [batches, threw]: the requestAnimationFrame callbacks scheduled, and
\* whether querySelectorAll threw out of applySelectorBlur.
applySelectorBlurB(E, rs) ==
    LET m == FirstMatching(rs)
        sels == IF m = <<>> THEN <<>> ELSE m[1].selectors
    IN [batches |-> BatchesOf(sels, E),
        threw |-> \E i \in 1..Len(sels) : ~SelectorValid(sels[i])]

\* processBatch: one slice of batchSize elements; the batches of this model
\* are shorter than one slice.
batchSize == 50

RECURSIVE ProcessSlice(_, _, _, _, _)
ProcessSlice(E, batch, i, end, px) ==
    IF i > end THEN E
    ELSE ProcessSlice([E EXCEPT ![batch[i]] = applyBlurToElementB(E[batch[i]], px)],
                      batch, i + 1, end, px)

Min(a, b) == IF a < b THEN a ELSE b

(***************************************************************************)
(* Region reconciliation                                                   *)
(***************************************************************************)

NewOverlay(i) ==
    [id |-> i, hoverSetup |-> FALSE, isHovering |-> FALSE, pe |-> "unset",
     filter |-> NoFilter, listeners |-> 0, left |-> 0, top |-> 0, node |-> 0]

\* Where the page lays out the body: the offset of its border box from the
\* top left corner of the document.
BodyOffset == 8

\* document.body.getBoundingClientRect(): the body's box relative to the
\* viewport, which the scroll offsets move.
bodyRect == [left |-> BodyOffset - scrollX, top |-> BodyOffset - scrollY]

\* Where the page lays out element e, in document coordinates: the elements
\* follow one another down the body.
elementOffset(e) == [left |-> BodyOffset, top |-> BodyOffset + 30 * (e - 1)]

\* The container of a region: document.querySelector(containerSelector) if
\* there is a selector and it resolves now, else document.body (0).
containerOf(region) ==
    LET found == IF region.containerSelector = "" THEN <<>>
                 ELSE querySelectorAll(region.containerSelector, els)
    IN IF found = <<>> THEN 0 ELSE Head(found)

\* container.getBoundingClientRect(): left and top relative to the viewport.
containerRect(c) ==
    IF c = 0 THEN bodyRect
    ELSE [left |-> elementOffset(c).left - scrollX,
          top |-> elementOffset(c).top - scrollY]

\* The position if the scroll offsets were left out of the sums.
overlayPositionWithoutScroll(region) ==
    LET rect == containerRect(containerOf(region)) IN
    [left |-> rect.left + region.x, top |-> rect.top + region.y]

\* The left and top written on the overlay of a region; its position is
\* fixed.
overlayPosition(region) ==
    LET rect == containerRect(containerOf(region)) IN
    [left |-> rect.left + region.x + scrollX,
     top |-> rect.top + region.y + scrollY]

placeOverlay(ov, region) ==
    [ov EXCEPT !.left = overlayPosition(region).left,
               !.top = overlayPosition(region).top]

\* A lookup that finds no overlay.
FindOverlayNone(O, i) == {}

\* The first overlay of O whose data-region-id is i, as a set of positions.
FindOverlay(O, i) ==
    LET hits == {k \in 1..Len(O) : O[k].id = i} IN
    IF hits = {} THEN {} ELSE {CHOOSE k \in hits : \A j \in hits : k <= j}

\* Revision A: the body of the forEach for one overlay.
updateOverlayA(ov, px, hover) ==
    LET setup ==
            IF hover /\ ~ov.hoverSetup
            THEN [ov EXCEPT !.hoverSetup = TRUE, !.pe = "auto",
                            !.listeners = ov.listeners + 1]
            ELSE IF ~hover /\ ov.hoverSetup
            THEN [ov EXCEPT !.hoverSetup = FALSE, !.isHovering = FALSE,
                            !.pe = "none"]
            ELSE ov
        blurred == IF setup.isHovering THEN setup
                   ELSE [setup EXCEPT !.filter = Blur(px)]
    IN IF ~hover THEN [blurred EXCEPT !.pe = "none"]
       ELSE IF ~blurred.hoverSetup THEN [blurred EXCEPT !.pe = "auto"]
       ELSE blurred

\* Revision B: pointer events off, blur at the current intensity.
updateOverlayB(ov, px) == [ov EXCEPT !.pe = "none", !.filter = Blur(px)]

updateOverlay(r, ov, px, hover) ==
    IF r = "A" THEN updateOverlayA(ov, px, hover) ELSE updateOverlayB(ov, px)

\* The overlays created if every index got a new one, reused or not.
RECURSIVE CreatedOverlaysAlways(_, _, _, _, _, _)
CreatedOverlaysAlways(r, O, i, n, px, hover) ==
    IF i >= n THEN <<>>
    ELSE <<updateOverlay(r, NewOverlay(i), px, hover)>>
         \o CreatedOverlaysAlways(r, O, i + 1, n, px, hover)

\* The overlays created for the indexes from i up that have none in O.
RECURSIVE CreatedOverlays(_, _, _, _, _, _)
CreatedOverlays(r, O, i, n, px, hover) ==
    IF i >= n THEN <<>>
    ELSE (IF FindOverlay(O, i) = {} THEN <<updateOverlay(r, NewOverlay(i), px, hover)>>
          ELSE <<>>)
         \o CreatedOverlays(r, O, i + 1, n, px, hover)

\* The overlays of kept at the positions of used, in DOM order.
RECURSIVE KeepUsed(_, _, _)
KeepUsed(kept, used, k) ==
    IF k > Len(kept) THEN <<>>
    ELSE (IF k \in used THEN <<kept[k]>> ELSE <<>>) \o KeepUsed(kept, used, k + 1)

\* document.createElement('div'): the node field tells the overlay elements
\* apart; the j-th element created by a pass is the j-th node that is not an
\* overlay of O.
FreshNode(O, j) ==
    LET taken == {O[k].node : k \in 1..Len(O)} IN
    CHOOSE n \in 1..(Len(O) + j) :
        n \notin taken /\ Cardinality({m \in 1..n : m \notin taken}) = j

\* applyRegionBlur: reuse the overlay whose id is the region's index, create
\* the missing ones (appended to the body), remove the unused ones.
applyRegionBlur(r, O, rgs, px, hover) ==
    LET n == Len(rgs)
        used == UNION {FindOverlay(O, i) : i \in 0..(n - 1)}
        kept == [k \in 1..Len(O) |->
                    IF k \in used THEN updateOverlay(r, O[k], px, hover) ELSE O[k]]
        created == CreatedOverlays(r, O, 0, n, px, hover)
        all == KeepUsed(kept, used, 1)
               \o [j \in 1..Len(created) |-> [created[j] EXCEPT !.node = FreshNode(O, j)]]
    IN [k \in 1..Len(all) |-> placeOverlay(all[k], rgs[all[k].id + 1])]

\* A pass that builds the overlays of the regions anew instead of moving the
\* existing ones.
recreateOverlays(O, rgs) ==
    [k \in 1..Len(rgs) |-> placeOverlay(NewOverlay(k - 1), rgs[k])]

\* updateRegionPositions: the overlays whose data-region-id is an index of
\* currentRegions are placed again, the others are left alone.
updateRegionPositions(O, rgs) ==
    [k \in 1..Len(O) |->
        IF O[k].id < 0 \/ O[k].id >= Len(rgs) THEN O[k]
        ELSE placeOverlay(O[k], rgs[O[k].id + 1])]

(***************************************************************************)
(* applyBlur and removeAllBlur                                             *)
(***************************************************************************)

\* removeAllBlur: strip the marked elements; revision B then runs
\* removeBlurFromElement on every match of every selector of every current
\* rule (invalid selectors caught).
removeAllBlur(r, E, rs) ==
    LET stripped == [e \in Elems |-> stripMarked(E[e])] IN
    IF r = "A" THEN stripped
    ELSE [e \in Elems |->
            IF e \in elementsToBlurA(stripped, rs)
            THEN removeBlurFromElementB(stripped[e]) ELSE stripped[e]]

\* applyBlur: [els, overlays, batches] after the call; batches are the frame
\* callbacks it scheduled.  In revision B an exception out of
\* applySelectorBlur leaves applyBlur before applyRegionBlur.
applyBlur(r, E, O, rs, rgs, en, px, hover) ==
    IF ~en
    THEN [els |-> removeAllBlur(r, E, rs), overlays |-> <<>>, batches |-> <<>>]
    ELSE IF r = "A"
    THEN [els |-> applySelectorBlurA(E, rs, px, hover),
          overlays |-> applyRegionBlur(r, O, rgs, px, hover),
          batches |-> <<>>]
    ELSE LET sb == applySelectorBlurB(E, rs) IN
         [els |-> E,
          overlays |-> IF sb.threw THEN O ELSE applyRegionBlur(r, O, rgs, px, hover),
          batches |-> sb.batches]

(***************************************************************************)
(* Mutation observers: they run when the task that changed the DOM ends    *)
(***************************************************************************)

\* What the body observer sees of an element (childList, class, style) and
\* of an overlay (style).
ObservedEl(el) == <<el.inDom, el.cls, el.blurred, el.filter, el.transition>>
StyleOfEl(el) == <<el.filter, el.transition>>
StyleOfOverlay(ov) == <<ov.pe, ov.filter, ov.left, ov.top>>

OverlayIds(O) == {O[k].id : k \in 1..Len(O)}
OverlayById(O, i) == O[CHOOSE k \in 1..Len(O) : O[k].id = i]

\* An observer that is called back at the end of every task, whether or not
\* the task changed a value.
everyTaskIsObserved(E1, O1, E2, O2) == TRUE

\* Revision A: the body observer's callback restarts the debounce timer on
\* any record.
anyMutation(E1, O1, E2, O2) ==
    \/ \E e \in Elems : ObservedEl(E1[e]) # ObservedEl(E2[e])
    \/ OverlayIds(O1) # OverlayIds(O2)
    \/ \E i \in OverlayIds(O1) \cap OverlayIds(O2) :
          StyleOfOverlay(OverlayById(O1, i)) # StyleOfOverlay(OverlayById(O2, i))

\* Revision B, hasRelevantChanges: added nodes, or a class/style change on a
\* target that does not carry data-hidey-blur when the callback runs.
hasRelevantChanges(E1, O1, E2, O2) ==
    \/ \E e \in Elems : ~E1[e].inDom /\ E2[e].inDom
    \/ OverlayIds(O2) \ OverlayIds(O1) # {}
    \/ \E e \in Elems :
          /\ E1[e].inDom
          /\ <<E1[e].cls, E1[e].blurred, StyleOfEl(E1[e])>>
                # <<E2[e].cls, E2[e].blurred, StyleOfEl(E2[e])>>
          /\ ~E2[e].marker
    \/ \E i \in OverlayIds(O1) \cap OverlayIds(O2) :
          StyleOfOverlay(OverlayById(O1, i)) # StyleOfOverlay(OverlayById(O2, i))

restartsDebounce(r, E1, O1, E2, O2) ==
    IF r = "A" THEN anyMutation(E1, O1, E2, O2)
    ELSE hasRelevantChanges(E1, O1, E2, O2)

\* Revision A, watchElementForBlurRemoval: the element's own observer, on a
\* style change, re-applies the blur if the computed filter has none.
styleObserverCallback(before, after, px) ==
    IF /\ after.styleObs
       /\ StyleOfEl(before) # StyleOfEl(after)
       /\ ~IncludesBlur(ComputedFilter(after))
    THEN [after EXCEPT !.filter = Blur(px)]
    ELSE after

(***************************************************************************)
(* Inputs of the engine specification                                      *)
(***************************************************************************)

Rule(p, sels, en) == [urlPattern |-> p, selectors |-> sels, enabled |-> en]

\* The rules a request to the background may carry.
RuleInputs ==
    { Rule(PatPage, <<".a">>, TRUE),
      Rule(PatPage, <<".a">>, FALSE),
      Rule(PatOther, <<".b">>, TRUE),
      Rule(PatBad, <<".b">>, TRUE),
      Rule(PatPage, <<>>, TRUE),
      Rule(PatPage, <<"", ".b">>, TRUE),
      Rule(PatPicked, <<".b", ".a">>, TRUE) }

Region(p) ==
    [urlPattern |-> p, x |-> 10, y |-> 20, width |-> 100, height |-> 50,
     containerSelector |-> ""]

\* A region drawn inside a container other than the body.
RegionIn(p, sel) == [Region(p) EXCEPT !.containerSelector = sel]

RegionInputs ==
    {Region(PatPage), Region(PatOther), RegionIn(PatPage, ".a"), RegionIn(PatPage, ".b")}

\* Partial<SiteSettings> of UPDATE_SITE_SETTINGS: blurIntensity 0 and
\* hoverToUnblur "undef" stand for an absent field.
SettingsInputs ==
    { [blurIntensity |-> 15, hoverToUnblur |-> "undef"],
      [blurIntensity |-> 8, hoverToUnblur |-> "undef"],
      [blurIntensity |-> 0, hoverToUnblur |-> "true"],
      [blurIntensity |-> 0, hoverToUnblur |-> "false"] }

\* loadState's result outside the call
NoResult == <<>>

AbsentElement == [FreshElement("a", NoFilter) EXCEPT !.inDom = FALSE]

(***************************************************************************)
(* The engine specification                                                *)
(***************************************************************************)

\* The matcher's variables while the engine specification runs.
MatchIdle ==
    /\ mPat = <<>>
    /\ mUrl = <<>>
    /\ mPhase = "idle"
    /\ mRes = "none"

\* No element is taken through the round trip.
RoundTripIdle ==
    /\ rtPhase = "idle"
    /\ rtBefore = <<>>
    /\ rtEl = <<>>

\* The page is not scrolled and no scroll or resize event has been handled.
ScrollIdle ==
    /\ scrollX = 0
    /\ scrollY = 0
    /\ positionUpdateTimer = "null"

\* The variables that only some specifications move, where they start.
\* Nothing is stored for the site and its tab is not followed.
NoSiteSettings == [blurIntensity |-> 0, hoverToUnblur |-> FALSE]
SiteHosts == HostVariants(PageHost)
SiteIdle ==
    /\ tabUrl = PageUrl
    /\ siteSettingsByHost = [h \in SiteHosts |-> NoSiteSettings]
    /\ siteInbox = <<>>
    /\ sitePhase = "idle"
    /\ siteBlur = BLUR_ENGINE_DEFAULT_INTENSITY

\* The sizes the window takes, the width of the button (its height is the
\* same) and the distance of the default position from the right and
\* bottom edges.
Viewports ==
    { [w |-> 100, h |-> 100], [w |-> 200, h |-> 100], [w |-> 200, h |-> 200] }
ButtonSize == 40
DefaultInset == 60
Origin == [x |-> 0, y |-> 0]

\* There is no floating button.
ButtonIdle ==
    /\ innerWidth = 200
    /\ innerHeight = 200
    /\ fbPhase = "idle"
    /\ currentPosition = Origin
    /\ buttonStyle = Origin
    /\ savedPosition = <<>>
    /\ isDragging = FALSE
    /\ dragOffset = Origin
    /\ dragStartPosition = Origin
    /\ hasDragged = FALSE
    /\ positionChanged = FALSE
    /\ loadPositionPending = FALSE

\* The clock stands still and the observer's callback has set no timeout.
DebounceIdle ==
    /\ clock = 0
    /\ timeouts = {}
    /\ debounceTimerId = 0
    /\ timeoutsSet = 0
    /\ lastMutationAt = -1
    /\ passesInBurst = 0

\* The unblur picker is off.
PickerIdle == isActive = FALSE /\ handlers = <<>>

UnitIdle ==
    /\ RoundTripIdle /\ ScrollIdle /\ SiteIdle /\ ButtonIdle /\ DebounceIdle
    /\ PickerIdle

Init ==
    /\ MatchIdle
    /\ UnitIdle
    /\ events = 0
    /\ rev \in {"A", "B"}
    /\ rules = <<>>
    /\ regions = <<>>
    /\ globalEnabled = TRUE
    /\ siteSettings = NoSiteSettings
    /\ inbox = <<>>
    /\ pc = "init"
    /\ loadResult = NoResult
    /\ currentRules = <<>>
    /\ currentRegions = <<>>
    /\ enabled = TRUE
    /\ blurIntensity = BLUR_ENGINE_DEFAULT_INTENSITY
    /\ hoverToUnblur = FALSE
    /\ debounceTimer = FALSE
    /\ \E f \in {NoFilter, PageFilter} :
          els = [e \in Elems |-> IF e = 1 THEN FreshElement("a", f) ELSE AbsentElement]
    /\ overlays = <<>>
    /\ frames = <<>>
    /\ pointer = 0

\* The end of a task of the page or the engine that leaves the elements E2
\* and the overlays O2 and has scheduled the frame callbacks newFrames: the
\* per-element style observers run (revision A), then the body observer
\* restarts the debounce timer if it is observing and saw a change it acts
\* on.  timer is the debounce timer as the task itself left it, ptr what is
\* under the pointer (an overlay that was removed is no longer under it).
EndTask(E2, O2, newFrames, px, observing, timer, ptr) ==
    LET E3 == IF rev = "A"
              THEN [e \in Elems |-> styleObserverCallback(els[e], E2[e], px)]
              ELSE E2
    IN /\ Len(frames) + Len(newFrames) <= MaxFrames
       /\ \A k \in 1..Len(O2) : O2[k].listeners <= MaxListeners
       /\ els' = E3
       /\ overlays' = O2
       /\ frames' = frames \o newFrames
       /\ pointer' = IF ptr > NumElems /\ (ptr - NumElems - 1) \notin OverlayIds(O2)
                     THEN 0 ELSE ptr
       /\ debounceTimer' =
            (timer \/ (observing /\ (\/ restartsDebounce(rev, els, overlays, E2, O2)
                                     \/ restartsDebounce(rev, E2, O2, E3, O2))))

\* One more event of the user or of the page's scripts.
UserEvent ==
    /\ events < MaxEvents
    /\ events' = events + 1

\* notifyContentScripts / chrome.tabs.sendMessage to the tab
Send(m) ==
    /\ Len(inbox) < MaxInFlight
    /\ inbox' = Append(inbox, m)

----
\* Background handlers

SameIdentity(r1, r2) ==
    r1.urlPattern = r2.urlPattern /\ r1.selectors = r2.selectors

\* updateRule: replace the rule with the same pattern and selectors, else push.
updateRule(rs, rule) ==
    LET hits == {i \in 1..Len(rs) : SameIdentity(rs[i], rule)} IN
    IF hits = {} THEN Append(rs, rule)
    ELSE [rs EXCEPT ![CHOOSE i \in hits : \A j \in hits : i <= j] = rule]

BgUpdateRule ==
    \E rule \in RuleInputs :
        /\ Len(updateRule(rules, rule)) <= MaxRules
        /\ rules' = updateRule(rules, rule)
        /\ Send([type |-> "UPDATE_RULES", rules |-> rules'])
        /\ UserEvent
        /\ UNCHANGED <<matchVars, unitVars, rev, regions, globalEnabled, siteSettings, engineVars, pageVars>>

\* The selectors deleteRule parses out of a rule id, which the popup builds as
\* "<urlPattern>|<selectors joined by ','>": no selectors give one empty
\* string.
idSelectors(sels) == IF sels = <<>> THEN <<"">> ELSE sels

\* The selectors of this model in the order of Array.prototype.sort.
SelectorsInOrder == <<"", ".a", ".b">>

\* Array.prototype.sort on a list of selectors
RECURSIVE SortFrom(_, _)
SortFrom(sels, k) ==
    IF k > Len(SelectorsInOrder) THEN <<>>
    ELSE SelectSeq(sels, LAMBDA x : x = SelectorsInOrder[k]) \o SortFrom(sels, k + 1)

SortSelectors(sels) == SortFrom(sels, 1)

\* deleteRule: drop the rules with the id's pattern and, once both lists are
\* sorted, its selectors.  The comparison sorts in place the selectors of
\* every rule that has the id's pattern.
deleteRule(rs, urlPattern, selectors) ==
    LET sorted == [i \in 1..Len(rs) |->
                     IF rs[i].urlPattern = urlPattern
                     THEN [rs[i] EXCEPT !.selectors = SortSelectors(@)]
                     ELSE rs[i]]
    IN SelectSeq(sorted, LAMBDA r : ~(/\ r.urlPattern = urlPattern
                                      /\ r.selectors = SortSelectors(selectors)))

BgDeleteRule ==
    \E i \in 1..Len(rules) :
        /\ rules' = deleteRule(rules, rules[i].urlPattern, idSelectors(rules[i].selectors))
        /\ Send([type |-> "UPDATE_RULES", rules |-> rules'])
        /\ UserEvent
        /\ UNCHANGED <<matchVars, unitVars, rev, regions, globalEnabled, siteSettings, engineVars, pageVars>>

\* The selectors a picker request carries for an element of the page.
PickedSelectors == {"." \o c : c \in Classes}

\* The notifications of one request, sent to the tab in order.
SendAll(ms) ==
    /\ Len(inbox) < MaxInFlight
    /\ inbox' = inbox \o ms

\* The least index of rs whose rule satisfies Test, 0 if there is none.
findIndex(rs, Test(_)) ==
    LET hits == {i \in 1..Len(rs) : Test(rs[i])} IN
    IF hits = {} THEN 0 ELSE CHOOSE i \in hits : \A j \in hits : i <= j

\* handleElementSelected: the selector is added to the first rule that has
\* the URL's pattern, if it is not there yet; without such a rule a new
\* enabled rule is pushed.
handleElementSelected(rs, selector, url) ==
    LET urlPattern == getUrlPattern(url)
        existingRuleIndex == findIndex(rs, LAMBDA r : r.urlPattern = urlPattern)
    IN IF existingRuleIndex = 0
       THEN Append(rs, Rule(urlPattern, <<selector>>, TRUE))
       ELSE IF selector \in Range(rs[existingRuleIndex].selectors) THEN rs
       ELSE [rs EXCEPT ![existingRuleIndex].selectors = Append(@, selector)]

BgElementSelected ==
    \E selector \in PickedSelectors :
        /\ Len(handleElementSelected(rules, selector, PageUrl)) <= MaxRules
        /\ rules' = handleElementSelected(rules, selector, PageUrl)
        /\ Send([type |-> "UPDATE_RULES", rules |-> rules'])
        /\ UserEvent
        /\ UNCHANGED <<matchVars, unitVars, rev, regions, globalEnabled, siteSettings, engineVars, pageVars>>

\* handleUnblurElement finds the first rule whose pattern the background's
\* matcher accepts for the URL; 0 if there is none.  The page of this model
\* is on no site of getDefaultRules, so no selector is a default one.
unblurRuleIndex(rs) ==
    findIndex(rs, LAMBDA r : backgroundMatchesPage(r.urlPattern))

\* handleUnblurElement: the selector is filtered out of that rule, and the
\* rule is spliced out if no selector is left.
handleUnblurElement(rs, selector) ==
    LET ruleIndex == unblurRuleIndex(rs)
        left == SelectSeq(rs[ruleIndex].selectors, LAMBDA x : x # selector)
    IN IF ruleIndex = 0 THEN rs
       ELSE IF left = <<>>
       THEN [k \in 1..(Len(rs) - 1) |-> IF k < ruleIndex THEN rs[k] ELSE rs[k + 1]]
       ELSE [rs EXCEPT ![ruleIndex].selectors = left]

BgUnblurElement ==
    \E selector \in PickedSelectors :
        /\ rules' = handleUnblurElement(rules, selector)
        /\ SendAll((IF unblurRuleIndex(rules) # 0
                    THEN <<[type |-> "UPDATE_RULES", rules |-> rules']>> ELSE <<>>)
                   \o <<[type |-> "UNBLUR_ELEMENT", rules |-> rules']>>)
        /\ UserEvent
        /\ UNCHANGED <<matchVars, unitVars, rev, regions, globalEnabled, siteSettings, engineVars, pageVars>>

BgRegionCreated ==
    \E region \in RegionInputs :
        /\ Len(regions) < MaxRegions
        /\ regions' = Append(regions, region)
        /\ Send([type |-> "UPDATE_REGIONS", regions |-> regions'])
        /\ UserEvent
        /\ UNCHANGED <<matchVars, unitVars, rev, rules, globalEnabled, siteSettings, engineVars, pageVars>>

\* deleteRegion: splice(index, 1) when the index is in range.
deleteRegion(rgs, index) ==
    [k \in 1..(Len(rgs) - 1) |-> IF k <= index THEN rgs[k] ELSE rgs[k + 1]]

BgDeleteRegion ==
    \E index \in 0..(Len(regions) - 1) :
        /\ regions' = deleteRegion(regions, index)
        /\ Send([type |-> "UPDATE_REGIONS", regions |-> regions'])
        /\ UserEvent
        /\ UNCHANGED <<matchVars, unitVars, rev, rules, globalEnabled, siteSettings, engineVars, pageVars>>

\* updateSiteSettings: { ...DEFAULT_SITE_SETTINGS, ...current, ...settings }
mergeSiteSettings(cur, settings) ==
    [blurIntensity |->
        IF settings.blurIntensity # 0 THEN settings.blurIntensity
        ELSE IF cur.blurIntensity # 0 THEN cur.blurIntensity
        ELSE BLUR_ENGINE_DEFAULT_INTENSITY,
     hoverToUnblur |->
        IF settings.hoverToUnblur = "undef" THEN cur.hoverToUnblur
        ELSE settings.hoverToUnblur = "true"]

\* The UPDATE_SETTINGS message of updateSiteSettings spreads the stored
\* settings: revision B's defaults carry enabled: true, revision A's carry no
\* enabled field.
siteSettingsMessage(r, st) ==
    [type |-> "UPDATE_SETTINGS",
     enabled |-> IF r = "A" THEN "undef" ELSE "true",
     blurIntensity |-> st.blurIntensity,
     hoverToUnblur |-> st.hoverToUnblur]

BgUpdateSiteSettings ==
    \E settings \in SettingsInputs :
        /\ siteSettings' = mergeSiteSettings(siteSettings, settings)
        /\ Send(siteSettingsMessage(rev, siteSettings'))
        /\ UserEvent
        /\ UNCHANGED <<matchVars, unitVars, rev, rules, regions, globalEnabled, engineVars, pageVars>>

\* toggleGlobal: revision A notifies UPDATE_GLOBAL_ENABLED, revision B
\* UPDATE_SETTINGS with the enabled field alone.
toggleGlobalMessage(r, en) ==
    IF r = "A" THEN [type |-> "UPDATE_GLOBAL_ENABLED",
                     enabled |-> IF en THEN "true" ELSE "false"]
    ELSE [type |-> "UPDATE_SETTINGS",
          enabled |-> IF en THEN "true" ELSE "false",
          blurIntensity |-> 0,
          hoverToUnblur |-> FALSE]

BgToggleGlobal ==
    \E en \in BOOLEAN :
        /\ globalEnabled' = en
        /\ Send(toggleGlobalMessage(rev, en))
        /\ UserEvent
        /\ UNCHANGED <<matchVars, unitVars, rev, rules, regions, siteSettings, engineVars, pageVars>>

\* The toggle-blur keyboard command
BgCommandToggleBlur ==
    /\ Send([type |-> "TOGGLE_BLUR"])
    /\ UserEvent
    /\ UNCHANGED <<matchVars, unitVars, rev, storeVars, engineVars, pageVars>>

----
\* The engine: loadState, the message listener, the toggle event, the timers

\* loadState up to its await: chrome.storage.sync.get reads the store.
LoadStateRead ==
    /\ pc = "init"
    /\ pc' = "read"
    /\ loadResult' = [rules |-> rules, regions |-> regions,
                      globalEnabled |-> globalEnabled, siteSettings |-> siteSettings]
    /\ UNCHANGED <<matchVars, unitVars, events, rev, storeVars, inbox, currentRules, currentRegions, enabled,
                   blurIntensity, hoverToUnblur, debounceTimer, pageVars>>

\* loadState: the rules that are enabled and whose pattern matches the URL.
loadedRules(rs) ==
    SelectSeq(rs, LAMBDA r : matchesPage(r.urlPattern) /\ r.enabled)

\* loadState: the regions whose pattern matches the URL.
loadedRegions(rgs) ==
    SelectSeq(rgs, LAMBDA g : matchesPage(g.urlPattern))

\* The stored or sent intensity taken as it is, without the default.
intensityWithoutDefault(n) == n

\* siteSettings?.blurIntensity || BLUR_ENGINE_DEFAULT_INTENSITY
intensityOr(n) == IF n # 0 THEN n ELSE BLUR_ENGINE_DEFAULT_INTENSITY

\* loadState after its await, then startObserving and applyBlur.
LoadStateResume ==
    /\ pc = "read"
    /\ pc' = "ready"
    /\ currentRules' = loadedRules(loadResult.rules)
    /\ currentRegions' = loadedRegions(loadResult.regions)
    /\ enabled' = loadResult.globalEnabled
    /\ blurIntensity' = intensityOr(loadResult.siteSettings.blurIntensity)
    /\ hoverToUnblur' = (rev = "A" /\ loadResult.siteSettings.hoverToUnblur)
    /\ LET ab == applyBlur(rev, els, overlays, currentRules', currentRegions',
                           enabled', blurIntensity', hoverToUnblur')
       IN EndTask(ab.els, ab.overlays, ab.batches, blurIntensity', TRUE, debounceTimer, pointer)
    /\ loadResult' = NoResult
    /\ UNCHANGED <<matchVars, unitVars, events, rev, storeVars, inbox>>

\* UPDATE_RULES, revision B: the elements with data-hidey-hovering get the
\* blur back if still marked and lose the attribute.
clearHovering(E, px) ==
    [e \in Elems |->
        IF E[e].inDom /\ E[e].hovering
        THEN [E[e] EXCEPT !.filter = IF E[e].marker THEN Blur(px) ELSE @,
                          !.hovering = FALSE]
        ELSE E[e]]

OnUpdateRules ==
    /\ inbox # <<>>
    /\ Head(inbox).type = "UPDATE_RULES"
    /\ inbox' = Tail(inbox)
    /\ currentRules' = Head(inbox).rules
    /\ LET E1 == IF rev = "B" THEN clearHovering(els, blurIntensity) ELSE els
           ab == applyBlur(rev, E1, overlays, currentRules', currentRegions,
                           enabled, blurIntensity, hoverToUnblur)
       IN EndTask(ab.els, ab.overlays, ab.batches, blurIntensity, pc = "ready",
                  debounceTimer, pointer)
    /\ UNCHANGED <<matchVars, unitVars, events, rev, storeVars, pc, loadResult, currentRegions, enabled,
                   blurIntensity, hoverToUnblur>>

OnUpdateRegions ==
    /\ inbox # <<>>
    /\ Head(inbox).type = "UPDATE_REGIONS"
    /\ inbox' = Tail(inbox)
    /\ currentRegions' = Head(inbox).regions
    /\ EndTask(els,
               IF enabled
               THEN applyRegionBlur(rev, overlays, currentRegions', blurIntensity,
                                    hoverToUnblur)
               ELSE overlays,
               <<>>, blurIntensity, pc = "ready", debounceTimer, pointer)
    /\ UNCHANGED <<matchVars, unitVars, events, rev, storeVars, pc, loadResult, currentRules, enabled,
                   blurIntensity, hoverToUnblur>>

\* UPDATE_SETTINGS: the loop that runs before applyBlur.  Revision A, when the
\* hover setting changed, calls updateHoverToUnblur on the marked elements;
\* revision B, when the intensity changed, restyles the marked elements that
\* are not hovered.
settingsChanged(r, E, oldPx, newPx, oldHover, newHover) ==
    [e \in Elems |->
        IF ~(E[e].inDom /\ E[e].marker) THEN E[e]
        ELSE IF r = "A"
        THEN (IF oldHover # newHover THEN updateHoverToUnblur(E[e], newHover) ELSE E[e])
        ELSE (IF oldPx # newPx /\ ~E[e].hovering
              THEN [E[e] EXCEPT !.filter = Blur(newPx)] ELSE E[e])]

OnUpdateSettings ==
    /\ inbox # <<>>
    /\ Head(inbox).type = "UPDATE_SETTINGS"
    /\ inbox' = Tail(inbox)
    /\ enabled' = (Head(inbox).enabled # "false")
    /\ blurIntensity' = intensityOr(Head(inbox).blurIntensity)
    /\ hoverToUnblur' = (rev = "A" /\ Head(inbox).hoverToUnblur)
    /\ LET E1 == settingsChanged(rev, els, blurIntensity, blurIntensity',
                                 hoverToUnblur, hoverToUnblur')
           ab == applyBlur(rev, E1, overlays, currentRules, currentRegions,
                           enabled', blurIntensity', hoverToUnblur')
       IN EndTask(ab.els, ab.overlays, ab.batches, blurIntensity', pc = "ready",
                  debounceTimer, pointer)
    /\ UNCHANGED <<matchVars, unitVars, events, rev, storeVars, pc, loadResult, currentRules, currentRegions>>

\* TOGGLE_BLUR: flip enabled; revision B also writes it to the store.
OnToggleBlur ==
    /\ inbox # <<>>
    /\ Head(inbox).type = "TOGGLE_BLUR"
    /\ inbox' = Tail(inbox)
    /\ enabled' = ~enabled
    /\ globalEnabled' = IF rev = "B" THEN enabled' ELSE globalEnabled
    /\ LET ab == applyBlur(rev, els, overlays, currentRules, currentRegions,
                           enabled', blurIntensity, hoverToUnblur)
       IN EndTask(ab.els, ab.overlays, ab.batches, blurIntensity, pc = "ready",
                  debounceTimer, pointer)
    /\ UNCHANGED <<matchVars, unitVars, events, rev, rules, regions, siteSettings, pc, loadResult, currentRules,
                   currentRegions, blurIntensity, hoverToUnblur>>

\* A message of a type the listener has no branch for.
OnOtherMessage ==
    /\ inbox # <<>>
    /\ Head(inbox).type \notin {"UPDATE_RULES", "UPDATE_REGIONS", "UPDATE_SETTINGS",
                                "TOGGLE_BLUR"}
    /\ inbox' = Tail(inbox)
    /\ UNCHANGED <<matchVars, unitVars, events, rev, storeVars, engineVars, pageVars>>

\* The hidey-toggle-blur window event of the floating button.
OnToggleEvent ==
    /\ enabled' = ~enabled
    /\ LET ab == applyBlur(rev, els, overlays, currentRules, currentRegions,
                           enabled', blurIntensity, hoverToUnblur)
       IN EndTask(ab.els, ab.overlays, ab.batches, blurIntensity, pc = "ready",
                  debounceTimer, pointer)
    /\ UserEvent
    /\ UNCHANGED <<matchVars, unitVars, rev, storeVars, inbox, pc, loadResult, currentRules,
                   currentRegions, blurIntensity, hoverToUnblur>>

\* The debounce timer fires: applySelectorBlur if enabled.
DebounceFire ==
    /\ debounceTimer
    /\ LET E2 == IF enabled /\ rev = "A"
                 THEN applySelectorBlurA(els, currentRules, blurIntensity, hoverToUnblur)
                 ELSE els
           fr == IF enabled /\ rev = "B"
                 THEN applySelectorBlurB(els, currentRules).batches ELSE <<>>
       IN EndTask(E2, overlays, fr, blurIntensity, pc = "ready", FALSE, pointer)
    /\ UNCHANGED <<matchVars, unitVars, events, rev, storeVars, inbox, pc, loadResult, currentRules,
                   currentRegions, enabled, blurIntensity, hoverToUnblur>>

\* The animation frame: the scheduled processBatch callbacks run in order.
RECURSIVE RunBatches(_, _, _)
RunBatches(E, fr, px) ==
    IF fr = <<>> THEN E
    ELSE RunBatches(ProcessSlice(E, Head(fr), 1, Min(batchSize, Len(Head(fr))), px),
                    Tail(fr), px)

RunFrame ==
    /\ frames # <<>>
    /\ LET E2 == RunBatches(els, frames, blurIntensity) IN
       /\ els' = E2
       /\ frames' = <<>>
       /\ debounceTimer' = (debounceTimer \/ (pc = "ready" /\
                               restartsDebounce(rev, els, overlays, E2, overlays)))
    /\ UNCHANGED <<matchVars, unitVars, events, rev, storeVars, inbox, pc, loadResult, currentRules,
                   currentRegions, enabled, blurIntensity, hoverToUnblur, overlays,
                   pointer>>

----
\* The pointer

\* The mouseenter listeners of an element.
mouseEnterHandler(r, el) ==
    IF ~el.listeners THEN el
    ELSE IF r = "A" THEN [el EXCEPT !.filter = Blur(0)]
    ELSE [el EXCEPT !.filter = FilterNone, !.hovering = TRUE]

\* The mouseleave listeners of an element.
mouseLeaveHandler(r, el, px) ==
    IF ~el.listeners THEN el
    ELSE IF r = "A" THEN [el EXCEPT !.filter = Blur(px)]
    ELSE IF ~el.marker THEN [el EXCEPT !.hovering = FALSE]
    ELSE [el EXCEPT !.filter = Blur(px), !.hovering = FALSE]

MouseEnter ==
    \E e \in Elems :
        /\ pointer = 0
        /\ els[e].inDom
        /\ EndTask([els EXCEPT ![e] = mouseEnterHandler(rev, els[e])], overlays, <<>>,
                   blurIntensity, pc = "ready", debounceTimer, e)
        /\ UserEvent
        /\ UNCHANGED <<matchVars, unitVars, rev, storeVars, inbox, pc, loadResult, currentRules,
                       currentRegions, enabled, blurIntensity, hoverToUnblur>>

MouseLeave ==
    \E e \in Elems :
        /\ pointer = e
        /\ EndTask([els EXCEPT ![e] = mouseLeaveHandler(rev, els[e], blurIntensity)],
                   overlays, <<>>, blurIntensity, pc = "ready", debounceTimer, 0)
        /\ UserEvent
        /\ UNCHANGED <<matchVars, unitVars, rev, storeVars, inbox, pc, loadResult, currentRules,
                       currentRegions, enabled, blurIntensity, hoverToUnblur>>

\* The overlay listeners of revision A's hover setup.
overlayEnterHandler(ov) ==
    IF ov.listeners = 0 THEN ov
    ELSE [ov EXCEPT !.filter = Blur(0), !.isHovering = TRUE]

overlayLeaveHandler(ov, px) ==
    IF ov.listeners = 0 THEN ov
    ELSE [ov EXCEPT !.filter = Blur(px), !.isHovering = FALSE]

\* The pointer enters an overlay that takes pointer events.
OverlayEnter ==
    \E k \in 1..Len(overlays) :
        /\ pointer = 0
        /\ overlays[k].pe = "auto"
        /\ EndTask(els, [overlays EXCEPT ![k] = overlayEnterHandler(overlays[k])],
                   <<>>, blurIntensity, pc = "ready", debounceTimer,
                   NumElems + 1 + overlays[k].id)
        /\ UserEvent
        /\ UNCHANGED <<matchVars, unitVars, rev, storeVars, inbox, pc, loadResult, currentRules,
                       currentRegions, enabled, blurIntensity, hoverToUnblur>>

OverlayLeave ==
    \E k \in 1..Len(overlays) :
        /\ pointer = NumElems + 1 + overlays[k].id
        /\ EndTask(els,
                   [overlays EXCEPT ![k] = overlayLeaveHandler(overlays[k], blurIntensity)],
                   <<>>, blurIntensity, pc = "ready", debounceTimer, 0)
        /\ UserEvent
        /\ UNCHANGED <<matchVars, unitVars, rev, storeVars, inbox, pc, loadResult, currentRules,
                       currentRegions, enabled, blurIntensity, hoverToUnblur>>

----
\* The page's own scripts

PageAddElement ==
    \E e \in Elems, c \in Classes :
        /\ ~els[e].inDom
        /\ EndTask([els EXCEPT ![e] = FreshElement(c, NoFilter)], overlays, <<>>,
                   blurIntensity, pc = "ready", debounceTimer, pointer)
        /\ UserEvent
        /\ UNCHANGED <<matchVars, unitVars, rev, storeVars, inbox, pc, loadResult, currentRules,
                       currentRegions, enabled, blurIntensity, hoverToUnblur>>

PageSetClass ==
    \E e \in Elems, c \in Classes :
        /\ els[e].inDom
        /\ els[e].cls # c
        /\ EndTask([els EXCEPT ![e].cls = c], overlays, <<>>,
                   blurIntensity, pc = "ready", debounceTimer, pointer)
        /\ UserEvent
        /\ UNCHANGED <<matchVars, unitVars, rev, storeVars, inbox, pc, loadResult, currentRules,
                       currentRegions, enabled, blurIntensity, hoverToUnblur>>

PageSetFilter ==
    \E e \in Elems, f \in {NoFilter, PageFilter} :
        /\ els[e].inDom
        /\ els[e].filter # f
        /\ EndTask([els EXCEPT ![e].filter = f], overlays, <<>>,
                   blurIntensity, pc = "ready", debounceTimer, pointer)
        /\ UserEvent
        /\ UNCHANGED <<matchVars, unitVars, rev, storeVars, inbox, pc, loadResult, currentRules,
                       currentRegions, enabled, blurIntensity, hoverToUnblur>>

----
\* The viewport

\* The scroll offsets the window can take.
ScrollOffsets == 0..MaxScroll

\* The user scrolls the page: a scroll event; once startObserving has added
\* its listener, updatePositions restarts the 50 ms timer.
WindowScroll ==
    \E x \in ScrollOffsets, y \in ScrollOffsets :
        /\ <<x, y>> # <<scrollX, scrollY>>
        /\ scrollX' = x
        /\ scrollY' = y
        /\ positionUpdateTimer' = IF pc = "ready" THEN "pending" ELSE positionUpdateTimer
        /\ UserEvent
        /\ UNCHANGED <<matchVars, roundTripVars, siteVars, viewportVars, buttonVars, debounceVars, pickerVars, rev, storeVars, inbox, engineVars,
                       pageVars>>

\* The position timer fires: updateRegionPositions.
PositionTimerFire ==
    /\ positionUpdateTimer = "pending"
    /\ positionUpdateTimer' = "fired"
    /\ EndTask(els, updateRegionPositions(overlays, currentRegions), <<>>,
               blurIntensity, pc = "ready", debounceTimer, pointer)
    /\ UNCHANGED <<matchVars, roundTripVars, siteVars, viewportVars, buttonVars, debounceVars, pickerVars, scrollX, scrollY, events, rev, storeVars,
                   inbox, pc, loadResult, currentRules, currentRegions, enabled,
                   blurIntensity, hoverToUnblur>>

Next ==
    \/ BgUpdateRule
    \/ BgDeleteRule
    \/ BgElementSelected
    \/ BgUnblurElement
    \/ BgRegionCreated
    \/ BgDeleteRegion
    \/ BgUpdateSiteSettings
    \/ BgToggleGlobal
    \/ BgCommandToggleBlur
    \/ LoadStateRead
    \/ LoadStateResume
    \/ OnUpdateRules
    \/ OnUpdateRegions
    \/ OnUpdateSettings
    \/ OnToggleBlur
    \/ OnOtherMessage
    \/ OnToggleEvent
    \/ DebounceFire
    \/ RunFrame
    \/ MouseEnter
    \/ MouseLeave
    \/ OverlayEnter
    \/ OverlayLeave
    \/ PageAddElement
    \/ PageSetClass
    \/ PageSetFilter
    \/ WindowScroll
    \/ PositionTimerFire

Spec == Init /\ [][Next]_vars

\* The behaviours in which the user edits rules and toggles the engine and
\* the page changes its elements.
NextRules ==
    \/ BgUpdateRule
    \/ BgDeleteRule
    \/ BgToggleGlobal
    \/ BgCommandToggleBlur
    \/ LoadStateRead
    \/ LoadStateResume
    \/ OnUpdateRules
    \/ OnUpdateSettings
    \/ OnToggleBlur
    \/ OnOtherMessage
    \/ DebounceFire
    \/ RunFrame
    \/ PageAddElement
    \/ PageSetClass
    \/ PageSetFilter

SpecRules == Init /\ [][NextRules]_vars

\* The behaviours in which the picker and the popup send the background
\* their requests about rules, and the tab's listener takes the
\* notifications.
NextStore ==
    \/ BgElementSelected
    \/ BgUnblurElement
    \/ BgUpdateRule
    \/ BgDeleteRule
    \/ OnUpdateRules
    \/ OnOtherMessage

SpecStore == Init /\ [][NextStore]_vars

\* The behaviours in which the user edits regions and settings and toggles
\* the engine.
NextRegions ==
    \/ BgRegionCreated
    \/ BgDeleteRegion
    \/ BgUpdateSiteSettings
    \/ BgToggleGlobal
    \/ LoadStateRead
    \/ LoadStateResume
    \/ OnUpdateRegions
    \/ OnUpdateSettings
    \/ OnOtherMessage
    \/ OnToggleEvent
    \/ OverlayEnter
    \/ OverlayLeave

SpecRegions == Init /\ [][NextRegions]_vars

\* A tab opened on a store that an earlier session filled: one enabled rule
\* and one region for the page.
InitStored ==
    /\ MatchIdle
    /\ UnitIdle
    /\ events = 0
    /\ rev \in {"A", "B"}
    /\ rules = <<Rule(PatPage, <<".a">>, TRUE)>>
    /\ regions = <<Region(PatPage)>>
    /\ globalEnabled = TRUE
    /\ siteSettings = NoSiteSettings
    /\ inbox = <<>>
    /\ pc = "init"
    /\ loadResult = NoResult
    /\ currentRules = <<>>
    /\ currentRegions = <<>>
    /\ enabled = TRUE
    /\ blurIntensity = BLUR_ENGINE_DEFAULT_INTENSITY
    /\ hoverToUnblur = FALSE
    /\ debounceTimer = FALSE
    /\ \E f \in {NoFilter, PageFilter} :
          els = [e \in Elems |-> IF e = 1 THEN FreshElement("a", f) ELSE AbsentElement]
    /\ overlays = <<>>
    /\ frames = <<>>
    /\ pointer = 0

\* The behaviours in which the user changes the site's settings, toggles the
\* engine from the floating button and moves the pointer, and the page
\* changes its elements.
NextHover ==
    \/ BgUpdateSiteSettings
    \/ BgCommandToggleBlur
    \/ LoadStateRead
    \/ LoadStateResume
    \/ OnUpdateSettings
    \/ OnToggleBlur
    \/ OnToggleEvent
    \/ DebounceFire
    \/ RunFrame
    \/ MouseEnter
    \/ MouseLeave
    \/ OverlayEnter
    \/ OverlayLeave
    \/ PageAddElement
    \/ PageSetClass
    \/ PageSetFilter

SpecHover == InitStored /\ [][NextHover]_vars

\* The same steps with the engine's own scheduling: a pending storage read
\* completes and loadState resumes, a pending debounce timeout fires and a
\* requested animation frame runs.  Nothing obliges the page, the pointer or
\* the background to take a further step, or a message in flight to arrive.
SpecQuiesce ==
    /\ InitStored
    /\ [][NextHover]_vars
    /\ WF_vars(LoadStateRead)
    /\ WF_vars(LoadStateResume)
    /\ WF_vars(DebounceFire)
    /\ WF_vars(RunFrame)

\* The behaviours in which the user draws and deletes regions and scrolls
\* the page.
NextScroll ==
    \/ BgRegionCreated
    \/ BgDeleteRegion
    \/ LoadStateRead
    \/ LoadStateResume
    \/ OnUpdateRegions
    \/ DebounceFire
    \/ WindowScroll
    \/ PositionTimerFire

SpecScroll == Init /\ [][NextScroll]_vars

(***************************************************************************)
(* The matcher specification: one call of urlMatchesPattern on any input   *)
(***************************************************************************)

\* The engine's variables while the matcher specification runs.
EngineIdle ==
    /\ events = 0
    /\ rev = "A"
    /\ rules = <<>>
    /\ regions = <<>>
    /\ globalEnabled = TRUE
    /\ siteSettings = NoSiteSettings
    /\ inbox = <<>>
    /\ pc = "init"
    /\ loadResult = NoResult
    /\ currentRules = <<>>
    /\ currentRegions = <<>>
    /\ enabled = TRUE
    /\ blurIntensity = BLUR_ENGINE_DEFAULT_INTENSITY
    /\ hoverToUnblur = FALSE
    /\ debounceTimer = FALSE
    /\ els = <<>>
    /\ overlays = <<>>
    /\ frames = <<>>
    /\ pointer = 0

InitMatch ==
    /\ EngineIdle
    /\ UnitIdle
    /\ mPat \in PatternInputs
    /\ mUrl \in UrlInputs
    /\ mPhase = "input"
    /\ mRes = "none"

CallUrlMatchesPattern ==
    /\ mPhase = "input"
    /\ mRes' = urlMatchesPatternResult(mUrl, mPat)
    /\ mPhase' = "done"
    /\ UNCHANGED <<mPat, mUrl, unitVars, events, rev, storeVars, inbox, engineVars, pageVars>>

NextMatch == CallUrlMatchesPattern

SpecMatch == InitMatch /\ [][NextMatch]_vars

(***************************************************************************)
(* The drag specification: a region is drawn on a page and the page is     *)
(* loaded again                                                            *)
(***************************************************************************)

\* window.location.href of the pages a region is drawn on: the hosts with
\* and without www., with and without a port and a query string.
Ports == {<<>>, <<":", "8">>}
Queries == {<<>>, <<"?", "a">>}
DragUrls ==
    {UrlOn(v \o port, path) \o query :
        v \in UNION {HostVariants(h) : h \in Hosts},
        port \in Ports, path \in Paths, query \in Queries}

InitDrag ==
    /\ EngineIdle
    /\ UnitIdle
    /\ mPat = <<>>
    /\ mUrl \in DragUrls
    /\ mPhase = "page"
    /\ mRes = "none"

\* DragBlur.handleMouseUp: the region sent with REGION_CREATED carries
\* this.getUrlPattern() of the page.
DragCreateRegion ==
    /\ mPhase = "page"
    /\ mPat' = UrlPatternOf(mUrl)
    /\ mPhase' = "input"
    /\ UNCHANGED <<mUrl, mRes, unitVars, events, rev, storeVars, inbox, engineVars, pageVars>>

\* The page is loaded again: loadState keeps the region if
\* urlMatchesPattern(window.location.href, region.urlPattern).
NextDrag ==
    \/ DragCreateRegion
    \/ CallUrlMatchesPattern

SpecDrag == InitDrag /\ [][NextDrag]_vars

(***************************************************************************)
(* The floating-button specification: the button is created at its saved   *)
(* or default position, dragged, and kept through window resizes and       *)
(* reloads of the page                                                     *)
(***************************************************************************)

\* clientX and clientY of the mouse events of a drag, and where in the button
\* the drag takes hold of it.
PointerCoordinates == {0, 120, 250}
GrabOffsets == {0, 20}

Max(a, b) == IF a > b THEN a ELSE b
Abs(a) == IF a < 0 THEN -a ELSE a

\* What the floating button leaves alone.
notButtonVars == <<matchVars, roundTripVars, scrollVars, siteVars, debounceVars, pickerVars, events, rev,
                   storeVars, inbox, engineVars, pageVars>>

InitButton ==
    /\ EngineIdle
    /\ MatchIdle
    /\ RoundTripIdle
    /\ ScrollIdle
    /\ SiteIdle
    /\ DebounceIdle
    /\ PickerIdle
    /\ \E v \in Viewports : innerWidth = v.w /\ innerHeight = v.h
    /\ fbPhase = "init"
    /\ currentPosition = Origin
    /\ buttonStyle = Origin
    /\ savedPosition = <<>>
    /\ isDragging = FALSE
    /\ dragOffset = Origin
    /\ dragStartPosition = Origin
    /\ hasDragged = FALSE
    /\ positionChanged = FALSE
    /\ loadPositionPending = FALSE

\* Math.max(0, Math.min(x, maxX)) on both axes, the button's offsetWidth and
\* offsetHeight being ButtonSize (constrainPosition and updatePosition).
constrainPosition(pos, w, h) ==
    [x |-> Max(0, Min(pos.x, w - ButtonSize)),
     y |-> Max(0, Min(pos.y, h - ButtonSize))]

\* loadPosition: the saved position of the hostname, or the default position
\* at the bottom right.
loadPosition(saved, w, h) ==
    IF saved # <<>> THEN saved[1]
    ELSE [x |-> w - DefaultInset, y |-> h - DefaultInset]

\* init: loadPosition, createButton, applyPosition; the listeners are
\* registered.
ButtonInit ==
    /\ fbPhase = "init"
    /\ fbPhase' = "ready"
    /\ currentPosition' = loadPosition(savedPosition, innerWidth, innerHeight)
    /\ buttonStyle' = currentPosition'
    /\ UNCHANGED <<notButtonVars, viewportVars, savedPosition, isDragging, dragOffset,
                   dragStartPosition, hasDragged, positionChanged, loadPositionPending>>

\* mousedown on the button: dragStartPosition, hasDragged, startDrag.
ButtonMouseDown ==
    \E d \in GrabOffsets :
        /\ fbPhase = "ready"
        /\ ~isDragging
        /\ isDragging' = TRUE
        /\ hasDragged' = FALSE
        /\ dragOffset' = [x |-> d, y |-> d]
        /\ dragStartPosition' = [x |-> buttonStyle.x + d, y |-> buttonStyle.y + d]
        /\ UNCHANGED <<notButtonVars, viewportVars, fbPhase, currentPosition, buttonStyle,
                       savedPosition, positionChanged, loadPositionPending>>

\* handleDrag: a move of more than 5px makes it a drag; updatePosition
\* constrains the position to the viewport and applies it.
handleDrag ==
    \E clientX \in PointerCoordinates, clientY \in PointerCoordinates :
        /\ isDragging
        /\ hasDragged' = (\/ hasDragged
                          \/ Abs(clientX - dragStartPosition.x) > 5
                          \/ Abs(clientY - dragStartPosition.y) > 5)
        /\ currentPosition' =
               constrainPosition([x |-> clientX - dragOffset.x,
                                  y |-> clientY - dragOffset.y],
                                 innerWidth, innerHeight)
        /\ buttonStyle' = currentPosition'
        /\ UNCHANGED <<notButtonVars, viewportVars, fbPhase, savedPosition, isDragging, dragOffset,
                       dragStartPosition, positionChanged, loadPositionPending>>

\* stopDrag: after a drag the position is saved, which the storage reports
\* to the change listeners if the stored value changed.  (The timer that
\* clears hasDragged serves the click handler of the panel only; mousedown
\* clears it too.)
stopDrag ==
    /\ isDragging
    /\ isDragging' = FALSE
    /\ savedPosition' = IF hasDragged THEN <<currentPosition>> ELSE savedPosition
    /\ positionChanged' = (positionChanged \/ savedPosition' # savedPosition)
    /\ UNCHANGED <<notButtonVars, viewportVars, fbPhase, currentPosition, buttonStyle, dragOffset,
                   dragStartPosition, hasDragged, loadPositionPending>>

\* The storage change listener: loadPosition is started and not awaited,
\* applyPosition runs with the position as it is.
ButtonStorageChanged ==
    /\ fbPhase = "ready"
    /\ positionChanged
    /\ positionChanged' = FALSE
    /\ loadPositionPending' = TRUE
    /\ buttonStyle' = currentPosition
    /\ UNCHANGED <<notButtonVars, viewportVars, fbPhase, currentPosition, savedPosition, isDragging,
                   dragOffset, dragStartPosition, hasDragged>>

\* The loadPosition of the change listener resumes with the stored positions.
ButtonLoadPositionResume ==
    /\ loadPositionPending
    /\ loadPositionPending' = FALSE
    /\ currentPosition' = loadPosition(savedPosition, innerWidth, innerHeight)
    /\ UNCHANGED <<notButtonVars, viewportVars, fbPhase, buttonStyle, savedPosition, isDragging,
                   dragOffset, dragStartPosition, hasDragged, positionChanged>>

\* The window is resized; the resize listener, once registered, constrains
\* and applies the position.
WindowResize ==
    \E v \in Viewports :
        /\ <<v.w, v.h>> # <<innerWidth, innerHeight>>
        /\ innerWidth' = v.w
        /\ innerHeight' = v.h
        /\ currentPosition' = IF fbPhase = "ready"
                              THEN constrainPosition(currentPosition, v.w, v.h)
                              ELSE currentPosition
        /\ buttonStyle' = IF fbPhase = "ready" THEN currentPosition' ELSE buttonStyle
        /\ UNCHANGED <<notButtonVars, fbPhase, savedPosition, isDragging, dragOffset,
                       dragStartPosition, hasDragged, positionChanged, loadPositionPending>>

\* The page is loaded again: a new FloatingButton is constructed, the
\* storage keeps the saved position.
ButtonReload ==
    /\ fbPhase = "ready"
    /\ fbPhase' = "init"
    /\ currentPosition' = Origin
    /\ buttonStyle' = Origin
    /\ isDragging' = FALSE
    /\ dragOffset' = Origin
    /\ dragStartPosition' = Origin
    /\ hasDragged' = FALSE
    /\ positionChanged' = FALSE
    /\ loadPositionPending' = FALSE
    /\ UNCHANGED <<notButtonVars, viewportVars, savedPosition>>

NextButton ==
    \/ ButtonInit
    \/ ButtonMouseDown
    \/ handleDrag
    \/ stopDrag
    \/ ButtonStorageChanged
    \/ ButtonLoadPositionResume
    \/ WindowResize
    \/ ButtonReload

SpecButton == InitButton /\ [][NextButton]_vars

(***************************************************************************)
(* The unblur picker (unnamed/part_003) beside the engine                  *)
(***************************************************************************)

\* style.pointerEvents = v on every region overlay.
setPointerEvents(O, v) == [k \in 1..Len(O) |-> [O[k] EXCEPT !.pe = v]]

\* What a picker step leaves alone besides the page and the store.
notPickerVars == <<matchVars, roundTripVars, scrollVars, siteVars, viewportVars,
                   buttonVars, debounceVars, rev, pc, loadResult, currentRules,
                   currentRegions, enabled, blurIntensity, hoverToUnblur>>

\* start(), on hidey-start-unblur-picker: the overlays are made clickable.
PickerStart ==
    /\ ~isActive
    /\ isActive' = TRUE
    /\ UNCHANGED handlers
    /\ EndTask(els, setPointerEvents(overlays, "auto"), <<>>, blurIntensity,
               pc = "ready", debounceTimer, pointer)
    /\ UserEvent
    /\ UNCHANGED <<notPickerVars, storeVars, inbox>>

\* stop(): the overlays' pointer events are set to none.
PickerStops ==
    /\ isActive' = FALSE
    /\ UNCHANGED handlers
    /\ EndTask(els, setPointerEvents(overlays, "none"), <<>>, blurIntensity,
               pc = "ready", debounceTimer, pointer)

\* handleClick on a region overlay: DELETE_REGION with the overlay's
\* data-region-id, which the background's deleteRegion takes as an index of
\* the stored regions; then stop().
PickerClickOverlay ==
    \E k \in 1..Len(overlays) :
        /\ isActive
        /\ overlays[k].pe = "auto"
        /\ LET index == overlays[k].id IN
           IF index >= 0 /\ index < Len(regions)
           THEN /\ regions' = deleteRegion(regions, index)
                /\ Send([type |-> "UPDATE_REGIONS", regions |-> regions'])
           ELSE UNCHANGED <<regions, inbox>>
        /\ PickerStops
        /\ UserEvent
        /\ UNCHANGED <<notPickerVars, rules, globalEnabled, siteSettings>>

\* GET_STATE: the stored rules that have a pattern and a selector.
getStateRules(rs) ==
    SelectSeq(rs, LAMBDA r : r.urlPattern # <<>> /\ r.selectors # <<>>)

\* findMatchingSelectors: the selectors, of the rules whose pattern matches
\* the page, that are valid and match the element.
findMatchingSelectors(rs, el) ==
    SelectSeq(AllSelectors(SelectSeq(getStateRules(rs),
                                     LAMBDA r : backgroundMatchesPage(r.urlPattern))),
              LAMBDA x : SelectorValid(x) /\ SelectorMatches(x, el))

\* generateSelector for an element without id: its classes.
generateSelector(el) == "." \o el.cls

\* The UNBLUR_ELEMENT requests for the selectors sels, handled one after the
\* other: the rules they leave and the notifications they send.
RECURSIVE unblurRequests(_, _)
unblurRequests(rs, sels) ==
    IF sels = <<>> THEN [rules |-> rs, msgs |-> <<>>]
    ELSE LET after == handleUnblurElement(rs, Head(sels))
             rest == unblurRequests(after, Tail(sels))
         IN [rules |-> rest.rules,
             msgs |-> (IF unblurRuleIndex(rs) # 0
                       THEN <<[type |-> "UPDATE_RULES", rules |-> after]>> ELSE <<>>)
                      \o <<[type |-> "UNBLUR_ELEMENT", rules |-> after]>>
                      \o rest.msgs]

\* handleClick on an element of the page: for a redacted element one
\* UNBLUR_ELEMENT per matching selector (or for the generated selector if
\* none matches); then stop().  The background handles the requests one
\* after the other here; the handler specification has their interleavings.
PickerClickElement ==
    \E e \in Elems :
        /\ isActive
        /\ els[e].inDom
        /\ LET found == findMatchingSelectors(rules, els[e])
               sels == IF found # <<>> THEN found ELSE <<generateSelector(els[e])>>
               done == unblurRequests(rules, sels)
           IN IF els[e].marker
              THEN /\ rules' = done.rules
                   /\ SendAll(done.msgs)
              ELSE UNCHANGED <<rules, inbox>>
        /\ PickerStops
        /\ UserEvent
        /\ UNCHANGED <<notPickerVars, regions, globalEnabled, siteSettings>>

\* The store holds a rule and a region for the page, with or without a
\* region for another site ahead of it, and the site's hover setting.
InitPicker ==
    /\ MatchIdle
    /\ UnitIdle
    /\ events = 0
    /\ rev \in {"A", "B"}
    /\ rules = <<Rule(PatPage, <<".a">>, TRUE)>>
    /\ regions \in {<<Region(PatPage)>>, <<Region(PatOther), Region(PatPage)>>}
    /\ globalEnabled = TRUE
    /\ \E h \in BOOLEAN : siteSettings = [blurIntensity |-> 0, hoverToUnblur |-> h]
    /\ inbox = <<>>
    /\ pc = "init"
    /\ loadResult = NoResult
    /\ currentRules = <<>>
    /\ currentRegions = <<>>
    /\ enabled = TRUE
    /\ blurIntensity = BLUR_ENGINE_DEFAULT_INTENSITY
    /\ hoverToUnblur = FALSE
    /\ debounceTimer = FALSE
    /\ els = [e \in Elems |-> IF e = 1 THEN FreshElement("a", NoFilter) ELSE AbsentElement]
    /\ overlays = <<>>
    /\ frames = <<>>
    /\ pointer = 0

\* The behaviours in which the user runs the picker, draws regions and
\* changes the site's settings.
NextPicker ==
    \/ BgRegionCreated
    \/ BgUpdateSiteSettings
    \/ LoadStateRead
    \/ LoadStateResume
    \/ OnUpdateRules
    \/ OnUpdateRegions
    \/ OnUpdateSettings
    \/ OnOtherMessage
    \/ DebounceFire
    \/ RunFrame
    \/ PickerStart
    \/ PickerClickOverlay
    \/ PickerClickElement

SpecPicker == InitPicker /\ [][NextPicker]_vars

(***************************************************************************)
(* The debounce specification: the body observer's callback and its        *)
(* timeout, with the time                                                  *)
(***************************************************************************)

MaxClock == 200
MaxTimeouts == 3

\* The delay of the timeout the callback sets.
debounceDelay(r) == IF r = "A" THEN 100 ELSE 20

\* The step of the clock.
TickMs == debounceDelay("B")

InitDebounce ==
    /\ MatchIdle
    /\ RoundTripIdle
    /\ ScrollIdle
    /\ SiteIdle
    /\ ButtonIdle
    /\ PickerIdle
    /\ events = 0
    /\ rev \in {"A", "B"}
    /\ rules = <<>>
    /\ regions = <<>>
    /\ globalEnabled = TRUE
    /\ siteSettings = NoSiteSettings
    /\ inbox = <<>>
    /\ pc = "ready"
    /\ loadResult = NoResult
    /\ currentRules = <<>>
    /\ currentRegions = <<>>
    /\ enabled = TRUE
    /\ blurIntensity = BLUR_ENGINE_DEFAULT_INTENSITY
    /\ hoverToUnblur = FALSE
    /\ debounceTimer = FALSE
    /\ els = <<>>
    /\ overlays = <<>>
    /\ frames = <<>>
    /\ pointer = 0
    /\ clock = 0
    /\ timeouts = {}
    /\ debounceTimerId = 0
    /\ timeoutsSet = 0
    /\ lastMutationAt = -1
    /\ passesInBurst = 0

\* What the engine's other variables do while the observer and its timeout
\* are followed.
notDebounceVars == <<matchVars, roundTripVars, scrollVars, siteVars, viewportVars,
                     buttonVars, pickerVars, events, rev, storeVars, inbox, engineVars, pageVars>>

\* clearTimeout that cancels nothing.
clearTimeoutNothing(T, id) == T

\* clearTimeout(id): the pending timeout with that id is cancelled; an id
\* that is not pending, or null, cancels nothing.
clearTimeout(T, id) == {t \in T : t.id # id}

\* The body observer's callback on records it acts on (any record in
\* revision A, hasRelevantChanges in revision B): clearTimeout of
\* this.debounceTimer, then setTimeout.
ObserverCallback ==
    /\ timeoutsSet < MaxTimeouts
    /\ clock + debounceDelay(rev) <= MaxClock
    /\ timeouts' = clearTimeout(timeouts, debounceTimerId)
                     \cup {[id |-> timeoutsSet + 1, due |-> clock + debounceDelay(rev)]}
    /\ debounceTimerId' = timeoutsSet + 1
    /\ timeoutsSet' = timeoutsSet + 1
    /\ lastMutationAt' = clock
    /\ passesInBurst' = 0
    /\ UNCHANGED <<notDebounceVars, clock>>

\* A timeout that is due runs: applySelectorBlur if enabled.  The callback
\* leaves this.debounceTimer as it is.
DebounceTimeout ==
    \E t \in timeouts :
        /\ t.due <= clock
        /\ timeouts' = timeouts \ {t}
        /\ passesInBurst' = IF enabled THEN passesInBurst + 1 ELSE passesInBurst
        /\ UNCHANGED <<notDebounceVars, clock, debounceTimerId, timeoutsSet, lastMutationAt>>

ClockTick ==
    /\ clock + TickMs <= MaxClock
    /\ clock' = clock + TickMs
    /\ UNCHANGED <<notDebounceVars, timeouts, debounceTimerId, timeoutsSet,
                   lastMutationAt, passesInBurst>>

NextDebounce ==
    \/ ObserverCallback
    \/ DebounceTimeout
    \/ ClockTick

\* Time passes and a timeout that is due runs.
SpecDebounce ==
    /\ InitDebounce
    /\ [][NextDebounce]_vars
    /\ WF_vars(ClockTick)
    /\ WF_vars(DebounceTimeout)

(***************************************************************************)
(* The round-trip specification: one element is redacted by                *)
(* applyBlurToElement and then cleared by removeBlurFromElement            *)
(***************************************************************************)

\* Inline transition values: "unset", "page" (authored by the page),
\* "engine" (filter 0.2s ease).
PageTransitions == {"unset", "page"}

\* The intensities the engine may hold when it redacts an element.
RoundTripIntensities == {BLUR_ENGINE_DEFAULT_INTENSITY, 15}

InitRoundTrip ==
    /\ MatchIdle
    /\ events = 0
    /\ rev \in {"A", "B"}
    /\ rules = <<>>
    /\ regions = <<>>
    /\ globalEnabled = TRUE
    /\ siteSettings = NoSiteSettings
    /\ inbox = <<>>
    /\ pc = "ready"
    /\ loadResult = NoResult
    /\ currentRules = <<>>
    /\ currentRegions = <<>>
    /\ enabled = TRUE
    /\ blurIntensity \in RoundTripIntensities
    /\ hoverToUnblur \in {h \in BOOLEAN : h => rev = "A"}
    /\ debounceTimer = FALSE
    /\ els = <<>>
    /\ overlays = <<>>
    /\ frames = <<>>
    /\ pointer = 0
    /\ ScrollIdle
    /\ SiteIdle
    /\ ButtonIdle
    /\ DebounceIdle
    /\ PickerIdle
    /\ rtPhase = "before"
    /\ \E c \in Classes, f \in {NoFilter, PageFilter}, t \in PageTransitions :
          rtEl = [FreshElement(c, f) EXCEPT !.transition = t]
    /\ rtBefore = rtEl

applyBlurToElement(r, el, px, hover) ==
    IF r = "A" THEN applyBlurToElementA(el, px, hover)
    ELSE applyBlurToElementB(el, px)

removeBlurFromElement(r, el) ==
    IF r = "A" THEN removeBlurFromElementA(el) ELSE removeBlurFromElementB(el)

CallApplyBlurToElement ==
    /\ rtPhase = "before"
    /\ rtPhase' = "redacted"
    /\ rtEl' = applyBlurToElement(rev, rtEl, blurIntensity, hoverToUnblur)
    /\ UNCHANGED <<matchVars, rtBefore, scrollVars, siteVars, viewportVars, buttonVars, debounceVars, pickerVars, events, rev, storeVars, inbox,
                   engineVars, pageVars>>

CallRemoveBlurFromElement ==
    /\ rtPhase = "redacted"
    /\ rtPhase' = "clear"
    /\ rtEl' = removeBlurFromElement(rev, rtEl)
    /\ UNCHANGED <<matchVars, rtBefore, scrollVars, siteVars, viewportVars, buttonVars, debounceVars, pickerVars, events, rev, storeVars, inbox,
                   engineVars, pageVars>>

NextRoundTrip ==
    \/ CallApplyBlurToElement
    \/ CallRemoveBlurFromElement

SpecRoundTrip == InitRoundTrip /\ [][NextRoundTrip]_vars

(***************************************************************************)
(* The site-settings specification: the popup changes the blur intensity   *)
(* of a site while a tab on the host or on its www. variant loads and      *)
(* receives the notifications                                              *)
(***************************************************************************)

\* The range of the popup's blur intensity slider.
MinIntensity == 2
MaxIntensity == 20
SliderValues == {MinIntensity, 15, MaxIntensity}

\* settings of UPDATE_SITE_SETTINGS as the popup sends them:
\* { blurIntensity: value }
SiteSettingsInputs ==
    {[blurIntensity |-> v, hoverToUnblur |-> "undef"] : v \in SliderValues}

\* new URL(window.location.href).hostname of the tab
tabHostname == UrlHostname(tabUrl)

InitSite ==
    /\ MatchIdle
    /\ RoundTripIdle
    /\ ScrollIdle
    /\ ButtonIdle
    /\ DebounceIdle
    /\ PickerIdle
    /\ events = 0
    /\ rev \in {"A", "B"}
    /\ rules = <<>>
    /\ regions = <<>>
    /\ globalEnabled = TRUE
    /\ siteSettings = NoSiteSettings
    /\ inbox = <<>>
    /\ pc = "init"
    /\ loadResult = NoResult
    /\ currentRules = <<>>
    /\ currentRegions = <<>>
    /\ enabled = TRUE
    /\ blurIntensity = BLUR_ENGINE_DEFAULT_INTENSITY
    /\ hoverToUnblur = FALSE
    /\ debounceTimer = FALSE
    /\ els = <<>>
    /\ overlays = <<>>
    /\ frames = <<>>
    /\ pointer = 0
    /\ tabUrl \in {UrlOn(h, <<"/", "p">>) : h \in SiteHosts}
    /\ siteSettingsByHost = [h \in SiteHosts |-> NoSiteSettings]
    /\ siteInbox = <<>>
    /\ sitePhase = "init"
    /\ siteBlur = BLUR_ENGINE_DEFAULT_INTENSITY

\* The key updateSiteSettings stores the settings of hostname under:
\* revision A strips a leading "www.", revision B takes the hostname as it is.
siteSettingsKey(r, hostname) ==
    IF r = "A" THEN StripWww(hostname) ELSE hostname

\* updateSiteSettings(hostname, settings): the merged settings are stored
\* under the key, and every tab whose hostname gives the same key is sent
\* UPDATE_SETTINGS with them.
updateSiteSettings(r, S, hostname, settings) ==
    LET key == siteSettingsKey(r, hostname)
    IN [S EXCEPT ![key] = mergeSiteSettings(S[key], settings)]

SiteUpdateSettings ==
    \E hostname \in SiteHosts, settings \in SiteSettingsInputs :
        LET key == siteSettingsKey(rev, hostname) IN
        /\ Len(siteInbox) < MaxInFlight
        /\ siteSettingsByHost' =
               updateSiteSettings(rev, siteSettingsByHost, hostname, settings)
        /\ siteInbox' =
               IF siteSettingsKey(rev, tabHostname) = key
               THEN Append(siteInbox, siteSettingsMessage(rev, siteSettingsByHost'[key]))
               ELSE siteInbox
        /\ UNCHANGED <<matchVars, roundTripVars, scrollVars, viewportVars, buttonVars, debounceVars, pickerVars, tabUrl, sitePhase, siteBlur,
                       events, rev, storeVars, inbox, engineVars, pageVars>>

\* loadState of the tab's engine, on a load or a reload of the page:
\* result.siteSettings?.[hostname] with the hostname of the page as it is.
SiteLoadState ==
    /\ sitePhase' = "loaded"
    /\ siteBlur' = intensityOr(siteSettingsByHost[tabHostname].blurIntensity)
    /\ UNCHANGED <<matchVars, roundTripVars, scrollVars, viewportVars, buttonVars, debounceVars, pickerVars, tabUrl, siteSettingsByHost,
                   siteInbox, events, rev, storeVars, inbox, engineVars, pageVars>>

\* The UPDATE_SETTINGS branch of the tab's listener.
SiteOnUpdateSettings ==
    /\ siteInbox # <<>>
    /\ siteInbox' = Tail(siteInbox)
    /\ siteBlur' = intensityOr(Head(siteInbox).blurIntensity)
    /\ UNCHANGED <<matchVars, roundTripVars, scrollVars, viewportVars, buttonVars, debounceVars, pickerVars, tabUrl, siteSettingsByHost,
                   sitePhase, events, rev, storeVars, inbox, engineVars, pageVars>>

NextSite ==
    \/ SiteUpdateSettings
    \/ SiteLoadState
    \/ SiteOnUpdateSettings

SpecSite == InitSite /\ [][NextSite]_vars

(***************************************************************************)
(* Properties of the round trip (stated of SpecRoundTrip)                  *)
(***************************************************************************)

\* What a page script can read of an element: the marker, the class list,
\* the inline filter and transition, and the attributes the engine adds.
VisibleState(el) ==
    [marker |-> el.marker, cls |-> el.cls, blurred |-> el.blurred,
     filter |-> el.filter, transition |-> el.transition,
     origFilter |-> el.origFilter, hoverAttr |-> el.hoverAttr,
     hovering |-> el.hovering]

\* C11: an element that was redacted by applyBlurToElement and then cleared
\* by removeBlurFromElement has its marker, class list, inline filter, inline
\* transition and engine-added attributes exactly as before the redaction,
\* also when it had a filter or a transition of its own.
C11_RoundTripRestores ==
    rtPhase = "clear" => VisibleState(rtEl) = VisibleState(rtBefore)

(***************************************************************************)
(* Properties of the matcher (stated of SpecMatch)                         *)
(***************************************************************************)

\* A pattern for one spelling of a host and a URL on a spelling of the same
\* host, with or without the www. prefix.
SameHostUpToWww(pattern, url) ==
    \E h \in Hosts : \E v \in HostVariants(h), w \in HostVariants(h) : \E p \in Paths :
        pattern = PatternFor(v) /\ url = UrlOn(w, p)

\* C6: a pattern written for a host h or for www.h matches the URLs on h and
\* on www.h alike: whenever the engine's matcher has been called with such a
\* pattern and such a URL, it returned true.
C6_WwwSymmetric ==
    (mPhase = "done" /\ SameHostUpToWww(mPat, mUrl)) => mRes = "true"

\* What a pattern of literal characters, `*`, `?` and `.` denotes: `*` is any
\* sequence of characters, `.` and every other character stand for themselves,
\* and `?` is any one character if anyOne, else a question mark.
RECURSIVE GlobMatches(_, _, _)
GlobMatches(p, u, anyOne) ==
    IF p = <<>> THEN u = <<>>
    ELSE IF Head(p) = "*"
    THEN GlobMatches(Tail(p), u, anyOne)
         \/ (u # <<>> /\ GlobMatches(p, Tail(u), anyOne))
    ELSE IF Head(p) = "?" /\ anyOne
    THEN u # <<>> /\ GlobMatches(Tail(p), Tail(u), anyOne)
    ELSE u # <<>> /\ Head(u) = Head(p) /\ GlobMatches(Tail(p), Tail(u), anyOne)

\* The patterns made of literal characters, `*`, `?` and `.` only.
PlainPattern(p) == \A i \in 1..Len(p) : p[i] # "("

\* C7 as stated: the matcher returns true exactly for the URLs that the
\* pattern denotes as a whole when `*` is any sequence, `?` exactly one
\* arbitrary character and `.` a literal dot.
C7_QuestionMarkAnyOne ==
    (mPhase = "done" /\ PlainPattern(mPat))
        => ((mRes = "true") <=> GlobMatches(mPat, mUrl, TRUE))

\* C7, amended: the matcher returns true exactly for the URLs that the
\* pattern denotes as a whole when `*` is any sequence of characters and `?`
\* and `.` are a literal question mark and a literal dot.
C7_QuestionMarkLiteral ==
    (mPhase = "done" /\ PlainPattern(mPat))
        => ((mRes = "true") <=> GlobMatches(mPat, mUrl, FALSE))

\* The matcher accepted a URL for a pattern that uses all three characters.
C7_Witness ==
    /\ mPhase = "done"
    /\ mPat = <<".", "?", "*">>
    /\ mUrl = <<".", "?", "a">>
    /\ mRes = "true"

(***************************************************************************)
(* Properties of the working set                                           *)
(***************************************************************************)

\* A message of the given type is delivered in this step.
Delivers(type) ==
    /\ inbox # <<>>
    /\ Head(inbox).type = type
    /\ inbox' = Tail(inbox)

\* C5: after loadState and after each UPDATE_RULES or UPDATE_REGIONS message
\* that follows it
\* the working set is the filtered list: currentRules is the subsequence of
\* the enabled rules of the list whose pattern matches the page URL, and
\* currentRegions the subsequence of the regions whose pattern matches it.
C5_WorkingSetFiltered ==
    [][/\ (pc = "ready" /\ Delivers("UPDATE_RULES"))
            => currentRules' = loadedRules(Head(inbox).rules)
       /\ (pc = "ready" /\ Delivers("UPDATE_REGIONS"))
            => currentRegions' = loadedRegions(Head(inbox).regions)
       /\ (pc = "read" /\ pc' = "ready")
            => /\ currentRules' = loadedRules(loadResult.rules)
               /\ currentRegions' = loadedRegions(loadResult.regions)]_vars

\* The pattern's regex source does not compile.
Malformed(pattern) == ~RegexCompiles(EngineRegexSource(pattern))

\* C8: for a malformed pattern the matcher returns false and raises no
\* exception, and once loadState has completed no rule or region with a
\* malformed pattern is in the engine's working set.
C8_MalformedFailsClosed ==
    /\ (mPhase = "done" /\ Malformed(mPat)) => mRes = "false"
    /\ pc = "ready" =>
          /\ \A i \in 1..Len(currentRules) : ~Malformed(currentRules[i].urlPattern)
          /\ \A i \in 1..Len(currentRegions) : ~Malformed(currentRegions[i].urlPattern)

\* C9: once loadState has completed, no rule with zero selectors or with an
\* empty-string selector is in the engine's working set, whichever path
\* filled it.
C9_NoEmptySelectorRule ==
    pc = "ready" =>
        \A i \in 1..Len(currentRules) :
            /\ currentRules[i].selectors # <<>>
            /\ \A k \in 1..Len(currentRules[i].selectors) :
                   currentRules[i].selectors[k] # ""

(***************************************************************************)
(* Properties of the page after reconciliation                             *)
(***************************************************************************)

\* Nothing the engine scheduled or was sent is still to run.
Quiescent ==
    /\ pc = "ready"
    /\ inbox = <<>>
    /\ ~debounceTimer
    /\ frames = <<>>

\* The element matches a selector of an enabled rule of the list rs whose
\* pattern matches the page URL.
MatchesActiveRule(el, rs) ==
    \E i \in 1..Len(rs) :
        /\ rs[i].enabled
        /\ matchesPage(rs[i].urlPattern)
        /\ \E k \in 1..Len(rs[i].selectors) : SelectorMatches(rs[i].selectors[k], el)

\* C1: once every reconciliation pass has completed, an element carries the
\* data-hidey-blur marker if and only if the engine is enabled and the element
\* matches a selector of an enabled rule whose pattern matches the page URL.
C1_MarkerIffActiveRule ==
    Quiescent =>
        \A e \in Elems :
            els[e].inDom =>
                (els[e].marker <=> (enabled /\ MatchesActiveRule(els[e], rules)))

\* C2: while redaction is off and every scheduled callback has run, no
\* element carries the marker, the hidey-blurred class, a blur filter of the
\* engine or a saved original filter, and there is no overlay.
C2_OffLeavesNothing ==
    (Quiescent /\ ~enabled) =>
        /\ overlays = <<>>
        /\ \A e \in Elems :
              els[e].inDom =>
                  /\ ~els[e].marker
                  /\ ~els[e].blurred
                  /\ ~IncludesBlur(els[e].filter)
                  /\ els[e].origFilter = NoFilter

\* C3: while the engine is enabled and has reconciled the regions it was
\* sent, the overlays are exactly one per region of the store whose pattern
\* matches the page URL, with data-region-id the region's index among them.
C3_OneOverlayPerMatchingRegion ==
    (pc = "ready" /\ inbox = <<>> /\ enabled) =>
        /\ Len(overlays) = Len(loadedRegions(regions))
        /\ OverlayIds(overlays) = 0..(Len(loadedRegions(regions)) - 1)

\* C4: when the notification that toggleGlobal sends for enabled = false is
\* delivered to the engine, the engine is disabled from then on.
C4_GlobalOffDisablesEngine ==
    [][(/\ pc = "ready"
        /\ inbox # <<>>
        /\ Head(inbox) = toggleGlobalMessage(rev, FALSE)
        /\ inbox' = Tail(inbox))
          => ~enabled']_vars

\* One reconciliation pass, applySelectorBlur (with its frame batches) and
\* then applyRegionBlur, from the elements E and the overlays O.
ReconciliationPass(E, O) ==
    LET ab == applyBlur(rev, E, O, currentRules, currentRegions, TRUE,
                        blurIntensity, hoverToUnblur)
    IN [els |-> RunBatches(ab.els, ab.batches, blurIntensity),
        overlays |-> ab.overlays]

\* C10: a second reconciliation pass right after a first one changes nothing:
\* the marked elements, each element's attributes, styles, listeners and
\* observer, and the overlays stay as the first pass left them.
C10_SecondPassChangesNothing ==
    pc = "ready" =>
        ReconciliationPass(ReconciliationPass(els, overlays).els,
                           ReconciliationPass(els, overlays).overlays)
            = ReconciliationPass(els, overlays)

\* A page with a marked element and an overlay on which a pass still has
\* work to do.
C10_Witness ==
    /\ pc = "ready"
    /\ enabled
    /\ \E e \in Elems : els[e].inDom /\ els[e].marker
    /\ overlays # <<>>
    /\ ReconciliationPass(els, overlays) # [els |-> els, overlays |-> overlays]

(***************************************************************************)
(* Properties of the passes that follow a change of the page               *)
(***************************************************************************)

\* The elements the page adds: element 1 is in the document from the start,
\* PageAddElement inserts the absent ones.
AddedElems == {e \in Elems : e > 1}

\* A step of the pass the body observer schedules: the debounce timer's
\* callback, and in revision B the frame callbacks that do its writes.
ObserverPass == DebounceFire \/ RunFrame

\* The step that ends that pass: the timer's callback in revision A; in
\* revision B the timer's callback if it leaves no frame callback to run,
\* else the frame callbacks when no later mutation restarted the timer.
ObserverPassEnds ==
    \/ rev = "A" /\ DebounceFire
    \/ rev = "B" /\ DebounceFire /\ frames' = <<>>
    \/ rev = "B" /\ RunFrame /\ ~debounceTimer

\* C12: when the pass that the body observer scheduled ends, an added
\* element that matches a selector of an active rule of the working set is
\* marked, and no step of the pass changes anything on the elements that
\* were already redacted and still match.
C12_AddedElementRedacted ==
    /\ [][(ObserverPassEnds /\ pc = "ready" /\ enabled)
            => \A e \in AddedElems :
                 (els[e].inDom /\ MatchesActiveRule(els[e], currentRules))
                     => els'[e].marker]_vars
    /\ [][(ObserverPass /\ pc = "ready" /\ enabled)
            => \A e \in Elems :
                 (els[e].inDom /\ els[e].marker
                    /\ MatchesActiveRule(els[e], currentRules))
                     => els'[e] = els[e]]_vars

(***************************************************************************)
(* Properties of hover-to-unblur                                           *)
(***************************************************************************)

\* The pointer is over the redacted element e and its mouseenter listener
\* has revealed it: blur(0px) in revision A, filter none in revision B.
HoverRevealed(e) ==
    /\ pointer = e
    /\ els[e].inDom
    /\ els[e].marker
    /\ els[e].listeners
    /\ els[e].filter \in {Blur(0), FilterNone}

\* The engine handles an UPDATE_SETTINGS message that changes the intensity
\* and leaves the engine enabled, or runs the frame callbacks of its pass.
IntensityChangePass ==
    \/ OnUpdateSettings /\ blurIntensity' # blurIntensity /\ enabled'
    \/ RunFrame /\ enabled

\* C13: while the pointer is over a hover-revealed element, a change of
\* blurIntensity by UPDATE_SETTINGS leaves the element revealed, and when the
\* pointer leaves, the element is blurred at the intensity the engine holds
\* then.
C13_RevealedUntilLeave ==
    [][\A e \in Elems :
          /\ (HoverRevealed(e) /\ IntensityChangePass)
                => els'[e].filter = els[e].filter
          /\ (HoverRevealed(e) /\ MouseLeave)
                => els'[e].filter = Blur(blurIntensity)]_vars

(***************************************************************************)
(* Properties of the overlays' positions (stated of SpecScroll)            *)
(***************************************************************************)

\* The top of an overlay relative to the page: its position is fixed, so its
\* top is relative to the viewport, which the page has scrolled under by
\* window.scrollY.
PageTop(ov, sy) == ov.top + sy

\* The overlay's region is in the working set and has no containerSelector.
RegionWithoutContainer(ov) ==
    /\ ov.id < Len(currentRegions)
    /\ currentRegions[ov.id + 1].containerSelector = ""

\* C14: across a scroll and across the reposition pass that follows it, the
\* left and top of the overlay of a region without containerSelector stay as
\* they were, so the overlay's top relative to the page moves by exactly the
\* amount the page was scrolled.
C14_ScrollKeepsFixedPosition ==
    [][(WindowScroll \/ PositionTimerFire)
         => \A k \in 1..Len(overlays) :
              RegionWithoutContainer(overlays[k])
                 => /\ overlays'[k].left = overlays[k].left
                    /\ overlays'[k].top = overlays[k].top
                    /\ PageTop(overlays'[k], scrollY')
                         = PageTop(overlays[k], scrollY) + (scrollY' - scrollY)]_vars

\* The reposition pass has run on an overlay with the page scrolled down.
C14_Witness ==
    /\ positionUpdateTimer = "fired"
    /\ scrollY > 0
    /\ \E k \in 1..Len(overlays) :
          /\ RegionWithoutContainer(overlays[k])
          /\ overlays[k].top = BodyOffset + currentRegions[overlays[k].id + 1].y

(***************************************************************************)
(* Properties of the store                                                 *)
(***************************************************************************)

\* A step of the content-side engine: loadState, a branch of its message
\* listener, the toggle event, a timer or frame callback, a hover listener.
EngineStep ==
    \/ LoadStateRead
    \/ LoadStateResume
    \/ OnUpdateRules
    \/ OnUpdateRegions
    \/ OnUpdateSettings
    \/ OnToggleBlur
    \/ OnOtherMessage
    \/ OnToggleEvent
    \/ DebounceFire
    \/ RunFrame
    \/ PositionTimerFire
    \/ MouseEnter
    \/ MouseLeave
    \/ OverlayEnter
    \/ OverlayLeave

\* C15: no step of the content-side engine changes the stored rules,
\* regions, siteSettings or globalEnabled; the store changes only in the
\* background's handlers of the requests it is sent.
C15_EngineNeverWritesStore ==
    [][EngineStep => UNCHANGED storeVars]_vars

\* Two rules of the list rs have the same pattern and the same set of
\* selectors.
SameRuleTwice(rs) ==
    \E i \in 1..Len(rs), j \in 1..Len(rs) :
        /\ i < j
        /\ rs[i].urlPattern = rs[j].urlPattern
        /\ Range(rs[i].selectors) = Range(rs[j].selectors)

\* C16: whatever ELEMENT_SELECTED, UPDATE_RULE, UNBLUR_ELEMENT and
\* DELETE_RULE requests the background has handled, no two stored rules have
\* the same urlPattern and the same set of selectors.
C16_NoDuplicateRule == ~SameRuleTwice(rules)

(***************************************************************************)
(* Properties of the site settings (stated of SpecSite)                    *)
(***************************************************************************)

\* What is stored for the normalized host of the tab.
NormalizedHostSettings == siteSettingsByHost[StripWww(tabHostname)]

\* C17: site settings are shared by a host and its www. variant: what
\* UPDATE_SITE_SETTINGS stores, for a hostname given with or without www.,
\* is stored for the normalized host, and the blur intensity the engine loads
\* on a page of the host and on a page of its www. variant is the value
\* stored for the normalized host.
C17_SiteSettingsShared ==
    /\ [](\A k \in SiteHosts :
              StripWww(k) # k => siteSettingsByHost[k] = NoSiteSettings)
    /\ [][SiteLoadState =>
              siteBlur' = intensityOr(NormalizedHostSettings.blurIntensity)]_vars

(***************************************************************************)
(* Properties of drawn regions (stated of SpecDrag)                        *)
(***************************************************************************)

\* C18: a region drawn on a page persists across reloads: when the page at
\* the same URL is loaded again, loadState keeps the region (it is among the
\* matched regions, which get an overlay), for every URL including those
\* with a www. prefix, a port or a query string.
C18_DrawnRegionPersists ==
    (mPhase = "done" /\ mPat = UrlPatternOf(mUrl)) => mRes = "true"

(***************************************************************************)
(* Properties of the blur intensity (stated of SpecSite)                   *)
(***************************************************************************)

InViewport(x, y) ==
    /\ 0 <= x /\ x <= innerWidth - ButtonSize
    /\ 0 <= y /\ y <= innerHeight - ButtonSize

\* C20: the floating button stays within the viewport: once it exists, its
\* position has 0 <= x <= innerWidth - buttonWidth and
\* 0 <= y <= innerHeight - buttonHeight, after the saved position is loaded,
\* after every drag step and after every window resize.
C20_ButtonInViewport ==
    fbPhase = "ready" =>
        /\ InViewport(currentPosition.x, currentPosition.y)
        /\ InViewport(buttonStyle.x, buttonStyle.y)

(***************************************************************************)
(* Properties of the debounce (stated of SpecDebounce)                     *)
(***************************************************************************)

\* The observer has delivered records and no pass has run since.
BurstOpen == lastMutationAt >= 0 /\ passesInBurst = 0

\* C21: there is at most one pending re-match timeout; the timeout pending
\* in a burst is the one its last mutation set, so the pass runs only once
\* the full delay has passed since the last mutation; and each burst gets
\* exactly one pass: at most one, and one in the end.
C21_OnePassPerBurst ==
    /\ [](/\ Cardinality(timeouts) <= 1
          /\ passesInBurst <= 1
          /\ BurstOpen =>
                timeouts = {[id |-> debounceTimerId,
                             due |-> lastMutationAt + debounceDelay(rev)]})
    /\ [][DebounceTimeout => clock >= lastMutationAt + debounceDelay(rev)]_vars
    /\ (BurstOpen ~> passesInBurst = 1)

\* Two mutations of one burst, the second before the timeout of the first
\* was due, and the one pass of the burst has run.
C21_Witness ==
    /\ timeoutsSet = 2
    /\ lastMutationAt > 0
    /\ lastMutationAt < debounceDelay(rev)
    /\ passesInBurst = 1
    /\ timeouts = {}

(***************************************************************************)
(* Properties of the observer's filter (stated of SpecHover)               *)
(***************************************************************************)

\* The records of the step are style and class changes only, all of them on
\* elements that carry the marker before and after it.
OnlyMarkedAttributeChanges ==
    /\ overlays' = overlays
    /\ \A e \in Elems : els'[e].inDom = els[e].inDom
    /\ \E e \in Elems : ObservedEl(els'[e]) # ObservedEl(els[e])
    /\ \A e \in Elems :
          ObservedEl(els'[e]) # ObservedEl(els[e]) => els[e].marker /\ els'[e].marker

\* C22: a mutation batch that consists only of style and class changes on
\* elements that carry the redacted marker does not start the debounce
\* timer, so it triggers no re-match pass.
C22_MarkedChangesIgnored ==
    [][(pc = "ready" /\ ~debounceTimer /\ OnlyMarkedAttributeChanges)
          => ~debounceTimer']_vars

(***************************************************************************)
(* Termination of the engine's own work (stated of SpecQuiesce)            *)
(***************************************************************************)

\* loadState has returned, no debounce timeout is pending and no frame
\* callback is scheduled.
NothingPending == pc = "ready" /\ ~debounceTimer /\ frames = <<>>

\* C23: once the page, the pointer and the messages stop, the engine runs
\* finitely many passes and stays in a state with no pending debounce
\* timeout and no scheduled frame batch: its own writes do not re-trigger it.
C23_EngineQuiesces == <>[]NothingPending

C23_Witness ==
    /\ NothingPending
    /\ events = MaxEvents
    /\ enabled
    /\ \E e \in Elems : els[e].inDom /\ els[e].marker

(***************************************************************************)
(* Properties of the message handlers (stated of SpecRules)                *)
(***************************************************************************)

\* The elements a selector pass of the revision over E and the rules rs
\* blurs.
SelectorPassTargets(r, E, rs) ==
    IF r = "A" THEN elementsToBlurA(E, rs)
    ELSE LET b == applySelectorBlurB(E, rs).batches IN
         UNION {Range(b[k]) : k \in 1..Len(b)}

\* The markers agree with the rules rs: enabled, every element the pass
\* blurs carries the marker; disabled, none does.
MarkersReconciled(r, E, rs, en) ==
    IF en THEN \A e \in SelectorPassTargets(r, E, rs) : E[e].marker
    ELSE \A e \in Elems : E[e].inDom => ~E[e].marker

\* The overlays agree with the regions rgs: enabled, one per region;
\* disabled, none.
OverlaysReconciled(O, rgs, en) ==
    IF en THEN Len(O) = Len(rgs) /\ OverlayIds(O) = 0..(Len(rgs) - 1)
    ELSE O = <<>>

HandlesUpdate ==
    /\ inbox # <<>>
    /\ Head(inbox).type \in {"UPDATE_RULES", "UPDATE_REGIONS", "UPDATE_SETTINGS"}
    /\ inbox' = Tail(inbox)

\* C24: when the handler of an UPDATE_RULES, UPDATE_REGIONS or
\* UPDATE_SETTINGS message returns, the markers agree with the rules the
\* engine now holds and the overlays with its regions, whatever timer or
\* frame is still pending.
C24_HandlerReconcilesBoth ==
    [][HandlesUpdate =>
          /\ MarkersReconciled(rev, els', currentRules', enabled')
          /\ OverlaysReconciled(overlays', currentRegions', enabled')]_vars

\* loadState resumes after its await, and the store's rules changed since
\* the read: the UPDATE_RULES message of that change has been handled, as
\* none is in flight.
ResumesAfterUpdate ==
    /\ pc = "read"
    /\ pc' = "ready"
    /\ inbox = <<>>
    /\ loadResult.rules # rules

\* C25: the rules that an update message delivered during loadState's
\* storage read put in memory are still in memory when loadState completes.
C25_LatestUpdateWins ==
    [][ResumesAfterUpdate => currentRules' = currentRules]_vars

(***************************************************************************)
(* Properties of the frame batches (stated of SpecRules)                   *)
(***************************************************************************)

\* An animation frame runs while the batches of more than one call of
\* applyBlurInBatches are pending.
FrameWithOlderBatch ==
    /\ Len(frames) >= 2
    /\ frames' = <<>>

\* C26: when a batch was started while an older one was still pending, the
\* frame runs the newest batch only: the older batch's slices never run.
C26_NewBatchSupersedes ==
    [][FrameWithOlderBatch =>
          els' = RunBatches(els, <<frames[Len(frames)]>>, blurIntensity)]_vars

\* A callback the engine scheduled earlier runs: a requested animation
\* frame, or the debounce timeout.
ScheduledCallbackRuns ==
    \/ frames # <<>> /\ frames' = <<>>
    \/ /\ debounceTimer
       /\ ~debounceTimer'
       /\ UNCHANGED <<inbox, events, pc, enabled>>

\* C27: while redaction is disabled, a callback scheduled before it was
\* disabled changes no element and no overlay, and at the step that disables
\* redaction every element loses the marker.
C27_NothingRunsAfterDisable ==
    /\ [][(pc = "ready" /\ ~enabled /\ ScheduledCallbackRuns)
             => UNCHANGED <<els, overlays>>]_vars
    /\ [][(pc = "ready" /\ enabled /\ ~enabled')
             => \A e \in Elems : els'[e].inDom => ~els'[e].marker]_vars

(***************************************************************************)
(* Properties of cleared elements (stated of SpecHover)                    *)
(***************************************************************************)

\* C28: when the pointer leaves an element that does not carry the marker
\* (it was cleared while the pointer was over it), the leave handler leaves
\* its filter as it is.
C28_ClearedNotReblurred ==
    [][\A e \in Elems :
          (pointer = e /\ els[e].inDom /\ ~els[e].marker /\ MouseLeave)
             => els'[e].filter = els[e].filter]_vars

\* C29: an element without the marker has no hover listeners of the engine
\* and no style observer of the engine attached.
C29_UnmarkedHasNoListeners ==
    \A e \in Elems :
        (els[e].inDom /\ ~els[e].marker) => (~els[e].listeners /\ ~els[e].styleObs)

(***************************************************************************)
(* The frame of the reposition pass (stated of SpecScroll)                 *)
(***************************************************************************)

\* The overlay after the step differs from the one before in left and top
\* at most.
SameButPosition(before, after) ==
    [after EXCEPT !.left = before.left, !.top = before.top] = before

\* C30: the reposition pass keeps the overlays that exist, changing nothing
\* of them but left and top; it changes no element, schedules no frame batch
\* and leaves the rules and regions in memory alone; it is scheduled by the
\* scroll event without touching the debounce timer, and a debounce timeout
\* that is pending when the pass runs is still pending after it.
C30_RepositionOnlyMoves ==
    /\ [][PositionTimerFire =>
             /\ Len(overlays') = Len(overlays)
             /\ \A k \in 1..Len(overlays) : SameButPosition(overlays[k], overlays'[k])
             /\ UNCHANGED <<els, frames, currentRules, currentRegions, enabled>>
             /\ debounceTimer => debounceTimer']_vars
    /\ [][WindowScroll => UNCHANGED <<debounceTimer, els, overlays, frames>>]_vars

\* The reposition pass has run over an overlay while the debounce timeout of
\* the observer is still pending.
C30_Witness ==
    /\ positionUpdateTimer = "fired"
    /\ overlays # <<>>
    /\ debounceTimer
    /\ scrollX + scrollY > 0

(***************************************************************************)
(* Properties of the overlays' containers (stated of SpecScroll)           *)
(***************************************************************************)

\* A pass that places the overlays runs: the reposition pass, or the region
\* reconciliation of an enabled engine.
PlacementPass ==
    \/ PositionTimerFire
    \/ OnUpdateRegions /\ enabled
    \/ LoadStateResume /\ enabled'

\* Overlay k renders a region of the working set and sits at the viewport
\* rectangle of the region's container (the body when the selector is absent
\* or resolves to nothing) plus the region's x and y.
AtContainerOrigin(k) ==
    LET region == currentRegions[overlays[k].id + 1]
        rect == containerRect(containerOf(region))
    IN overlays[k].id < Len(currentRegions) =>
          /\ overlays[k].left = rect.left + region.x
          /\ overlays[k].top = rect.top + region.y

\* C31: after a reconcile or reposition pass every overlay's left and top
\* are the viewport left and top of its region's container, resolved at that
\* pass, plus the region's x and y, whatever the scroll offsets.
C31_OverlayAtContainerRect ==
    [][PlacementPass => \A k \in 1..Len(overlays') : AtContainerOrigin(k)']_vars

(***************************************************************************)
(* Properties of the overlay elements (stated of SpecRegions)              *)
(***************************************************************************)

\* A step in which applyRegionBlur runs: the handler of UPDATE_REGIONS of an
\* enabled engine, or an applyBlur that finds the engine enabled.
RegionPass ==
    \/ OnUpdateRegions /\ enabled
    \/ (LoadStateResume \/ OnUpdateSettings \/ OnToggleEvent) /\ enabled'

\* C32: across applyRegionBlur, the overlay of every index below the number
\* of regions in memory is the element it was before, and the overlays of
\* the other indexes are gone.
C32_MatchedOverlaysKept ==
    [][RegionPass =>
          /\ \A k \in 1..Len(overlays) :
                overlays[k].id < Len(currentRegions')
                   => \E j \in 1..Len(overlays') :
                         /\ overlays'[j].id = overlays[k].id
                         /\ overlays'[j].node = overlays[k].node
          /\ \A j \in 1..Len(overlays') : overlays'[j].id < Len(currentRegions')
          /\ \A j, l \in 1..Len(overlays') :
                overlays'[j].id = overlays'[l].id => j = l]_vars

\* A second region was drawn and deleted again: the overlay of the first is
\* the element created for it, and it is the only overlay.
C32_Witness ==
    /\ pc = "ready"
    /\ enabled
    /\ events >= 3
    /\ inbox = <<>>
    /\ Len(regions) = 1
    /\ Len(currentRegions) = 1
    /\ Len(overlays) = 1
    /\ overlays[1].id = 0
    /\ overlays[1].node = 1

(***************************************************************************)
(* C33: which overlays take pointer events                                 *)
(***************************************************************************)

\* C33: in every state an overlay takes pointer events exactly if
\* hover-reveal is on or the unblur picker is active.
C33_PointerEventsIffNeeded ==
    \A k \in 1..Len(overlays) :
        overlays[k].pe = "auto" <=> (hoverToUnblur \/ isActive)

(***************************************************************************)
(* C34: an invalid selector                                                *)
(***************************************************************************)

\* The rules whose selectors a selector pass of the revision queries.
QueriedRules(r, rs) == IF r = "A" THEN rs ELSE FirstMatching(rs)

\* The elements that the valid selectors of the queried rules match.
ValidSelectorMatches(r, E, rs) ==
    UNION {Range(querySelectorAll(sel, E)) :
             sel \in {x \in Range(AllSelectors(QueriedRules(r, rs))) : SelectorValid(x)}}

\* The elements that the frame callbacks fs will blur.
Scheduled(fs) == UNION {Range(fs[k]) : k \in 1..Len(fs)}

RulesPass ==
    /\ OnUpdateRules
    /\ enabled
    /\ \E i \in 1..Len(AllSelectors(QueriedRules(rev, currentRules'))) :
          ~SelectorValid(AllSelectors(QueriedRules(rev, currentRules'))[i])

\* C34: a pass over rules with an invalid selector still blurs, or schedules
\* for blurring, every element that a valid selector of those rules
\* matches, and goes on to reconcile the overlays.
C34_InvalidSelectorSkippedAlone ==
    [][RulesPass =>
          /\ \A e \in ValidSelectorMatches(rev, els, currentRules') :
                els'[e].marker \/ e \in Scheduled(frames')
          /\ OverlaysReconciled(overlays', currentRegions', TRUE)]_vars

(***************************************************************************)
(* C35: the order of the rules                                             *)
(***************************************************************************)

\* The rules rs, last first.
Reversed(rs) == [i \in 1..Len(rs) |-> rs[Len(rs) + 1 - i]]

\* An UPDATE_RULES message is handled by the enabled engine, every rule it
\* carries is enabled and every selector valid.
ValidRulesPass ==
    /\ OnUpdateRules
    /\ enabled
    /\ \A i \in 1..Len(currentRules') : currentRules'[i].enabled
    /\ \A i \in 1..Len(AllSelectors(currentRules')) :
          SelectorValid(AllSelectors(currentRules')[i])

\* C35: the elements a selector pass blurs are the same for the rules in
\* the opposite order.
C35_RuleOrderIrrelevant ==
    [][ValidRulesPass =>
          SelectorPassTargets(rev, els, currentRules')
             = SelectorPassTargets(rev, els, Reversed(currentRules'))]_vars

(***************************************************************************)
(* The default rules and UNBLUR_ELEMENT requests of any tab                *)
(***************************************************************************)

\* getDefaultRules, with one site and one selector standing for the four
\* sites and their selectors.
getDefaultRules == <<Rule(PatDefaultSite, <<".b">>, TRUE)>>

\* The URLs of the tabs that send requests.
RequestUrls == {PageUrl, DefaultSiteUrl}

\* The background's urlMatchesPattern(url, pattern), tabulated.
BackgroundMatchesTable ==
    [u \in RequestUrls |-> [p \in PagePatterns |-> backgroundUrlMatchesPattern(u, p)]]
backgroundMatches(url, pattern) == BackgroundMatchesTable[url][pattern]

\* A background that takes no selector for a default one.
isDefaultSelectorNever(selector, url) == FALSE

\* handleUnblurElement: defaultRules.some(rule => urlMatchesPattern(url,
\* rule.urlPattern) && rule.selectors.includes(selector)).
isDefaultSelector(selector, url) ==
    \E i \in 1..Len(getDefaultRules) :
        /\ backgroundMatches(url, getDefaultRules[i].urlPattern)
        /\ selector \in Range(getDefaultRules[i].selectors)

\* handleUnblurElement(selector, url): the rules it leaves in the store and
\* the notifications it sends.
handleUnblurElementFrom(rs, selector, url) ==
    LET ruleIndex == findIndex(rs, LAMBDA r : backgroundMatches(url, r.urlPattern))
        left == SelectSeq(rs[ruleIndex].selectors, LAMBDA x : x # selector)
        after == IF ruleIndex = 0 THEN rs
                 ELSE IF left = <<>>
                 THEN [k \in 1..(Len(rs) - 1) |-> IF k < ruleIndex THEN rs[k] ELSE rs[k + 1]]
                 ELSE [rs EXCEPT ![ruleIndex].selectors = left]
    IN IF isDefaultSelector(selector, url) THEN [rules |-> rs, msgs |-> <<>>]
       ELSE [rules |-> after,
             msgs |-> (IF ruleIndex # 0
                       THEN <<[type |-> "UPDATE_RULES", rules |-> after]>> ELSE <<>>)
                      \o <<[type |-> "UNBLUR_ELEMENT", rules |-> after]>>]

\* The background handles the UNBLUR_ELEMENT request of the tab at url.
BgUnblurElementFrom ==
    \E selector \in PickedSelectors, url \in RequestUrls :
        LET done == handleUnblurElementFrom(rules, selector, url) IN
        /\ rules' = done.rules
        /\ SendAll(done.msgs)
        /\ UserEvent
        /\ UNCHANGED <<matchVars, unitVars, rev, regions, globalEnabled, siteSettings,
                       engineVars, pageVars>>

\* The store holds rules for the default site, as installed or as picked
\* there, with or without a rule for the page.
InitDefaults ==
    /\ MatchIdle
    /\ UnitIdle
    /\ events = 0
    /\ rev \in {"A", "B"}
    /\ rules \in {<<>>,
                  <<Rule(PatDefaultSite, <<".b">>, TRUE)>>,
                  <<Rule(PatDefaultSite, <<".a", ".b">>, TRUE)>>,
                  <<Rule(PatPage, <<".a">>, TRUE), Rule(PatDefaultSite, <<".b">>, TRUE)>>}
    /\ regions = <<>>
    /\ globalEnabled = TRUE
    /\ siteSettings = NoSiteSettings
    /\ inbox = <<>>
    /\ pc = "init"
    /\ loadResult = NoResult
    /\ currentRules = <<>>
    /\ currentRegions = <<>>
    /\ enabled = TRUE
    /\ blurIntensity = BLUR_ENGINE_DEFAULT_INTENSITY
    /\ hoverToUnblur = FALSE
    /\ debounceTimer = FALSE
    /\ els = [e \in Elems |-> IF e = 1 THEN FreshElement("a", NoFilter) ELSE AbsentElement]
    /\ overlays = <<>>
    /\ frames = <<>>
    /\ pointer = 0

NextDefaults ==
    \/ BgUnblurElementFrom
    \/ LoadStateRead
    \/ LoadStateResume
    \/ OnUpdateRules
    \/ OnOtherMessage
    \/ DebounceFire
    \/ RunFrame

SpecDefaults == InitDefaults /\ [][NextDefaults]_vars

\* The selector is one of a default rule whose pattern matches the URL.
OfMatchingDefaultRule(selector, url) ==
    \E i \in 1..Len(getDefaultRules) :
        /\ backgroundUrlMatchesPattern(url, getDefaultRules[i].urlPattern)
        /\ \E j \in 1..Len(getDefaultRules[i].selectors) :
              getDefaultRules[i].selectors[j] = selector

\* The step is the handling of the request (selector, url).
UnblurElementRequest(selector, url) ==
    /\ BgUnblurElementFrom
    /\ rules' = handleUnblurElementFrom(rules, selector, url).rules
    /\ inbox' = inbox \o handleUnblurElementFrom(rules, selector, url).msgs

\* C36: an UNBLUR_ELEMENT request for a selector of a default rule whose
\* pattern matches the URL leaves the stored rules as they are and sends no
\* UPDATE_RULES message.
C36_DefaultSelectorNotCleared ==
    [][\A selector \in PickedSelectors, url \in RequestUrls :
          UnblurElementRequest(selector, url) /\ OfMatchingDefaultRule(selector, url)
             => /\ rules' = rules
                /\ \A k \in 1..Len(inbox') :
                      k > Len(inbox) => inbox'[k].type # "UPDATE_RULES"]_vars

\* A request was made and handled while the store held the default
\* selector under a rule for the default site, and the store still holds it.
C36_Witness ==
    /\ events = 1
    /\ inbox = <<>>
    /\ pc = "init"
    /\ rules = <<Rule(PatDefaultSite, <<".a", ".b">>, TRUE)>>

(***************************************************************************)
(* C37: the region a click in delete-mode removes                          *)
(***************************************************************************)

\* The step is the picker's click on the overlay at position k.
ClickOnOverlay(k) ==
    /\ PickerClickOverlay
    /\ k \in 1..Len(overlays)
    /\ overlays[k].pe = "auto"
    /\ regions' = IF overlays[k].id < Len(regions)
                  THEN deleteRegion(regions, overlays[k].id) ELSE regions

\* The store rgs without its j-th region.
WithoutRegion(rgs, j) ==
    [i \in 1..(Len(rgs) - 1) |-> IF i < j THEN rgs[i] ELSE rgs[i + 1]]

\* C37: a click on an overlay in delete-mode takes out of the store one
\* region, and it is the region of the engine's list that the overlay
\* renders.
C37_ClickRemovesRenderedRegion ==
    [][\A k \in 1..Len(overlays) :
          ClickOnOverlay(k) /\ overlays[k].id < Len(currentRegions)
             => \E j \in 1..Len(regions) :
                   /\ regions[j] = currentRegions[overlays[k].id + 1]
                   /\ regions' = WithoutRegion(regions, j)]_vars

(***************************************************************************)
(* The handler specification: the background's handlers of UNBLUR_ELEMENT  *)
(* and ELEMENT_SELECTED, split at their awaits                             *)
(***************************************************************************)

MaxHandlers == 2

\* The requests of the page's tab that modify the stored rules.
RuleRequests ==
    {[type |-> t, selector |-> sel] :
        t \in {"UNBLUR_ELEMENT", "ELEMENT_SELECTED"}, sel \in PickedSelectors}

\* The handler of the request q up to its chrome.storage.sync.get.
AwaitingGet(q) == [type |-> q.type, selector |-> q.selector, phase |-> "get", value |-> <<>>]

\* The handler h from its chrome.storage.sync.set({rules: rs}) on.
AwaitingSet(h, rs) == [h EXCEPT !.phase = "set", !.value = rs]

\* What the handler h makes of the rules rs that its get returned.
modifiedRules(h, rs) ==
    IF h.type = "UNBLUR_ELEMENT" THEN handleUnblurElement(rs, h.selector)
    ELSE handleElementSelected(rs, h.selector, PageUrl)

\* The listener is called with a request: the handler runs up to its get.
ReceiveRequest ==
    \E q \in RuleRequests :
        /\ Len(handlers) < MaxHandlers
        /\ q.type = "UNBLUR_ELEMENT" => ~isDefaultSelector(q.selector, PageUrl)
        /\ handlers' = Append(handlers, AwaitingGet(q))
        /\ UserEvent
        /\ UNCHANGED <<matchVars, roundTripVars, scrollVars, siteVars, viewportVars,
                       buttonVars, debounceVars, isActive, rev, storeVars, inbox,
                       engineVars, pageVars>>

\* The storage completes the oldest operation, a get: the handler resumes
\* with the stored rules, modifies them and calls set; handleUnblurElement
\* without a rule for the URL sends its UNBLUR_ELEMENT and returns.
HandlerGet ==
    /\ handlers # <<>>
    /\ Head(handlers).phase = "get"
    /\ LET h == Head(handlers) IN
       /\ Len(modifiedRules(h, rules)) <= MaxRules
       /\ IF h.type = "UNBLUR_ELEMENT" /\ unblurRuleIndex(rules) = 0
          THEN /\ handlers' = Tail(handlers)
               /\ SendAll(<<[type |-> "UNBLUR_ELEMENT", rules |-> rules]>>)
          ELSE /\ handlers' = Append(Tail(handlers), AwaitingSet(h, modifiedRules(h, rules)))
               /\ UNCHANGED inbox
    /\ UNCHANGED <<matchVars, roundTripVars, scrollVars, siteVars, viewportVars,
                   buttonVars, debounceVars, isActive, events, rev, storeVars,
                   engineVars, pageVars>>

\* The storage completes the oldest operation, a set: the rules are stored,
\* the handler resumes, notifies the tabs and returns.
HandlerSet ==
    /\ handlers # <<>>
    /\ Head(handlers).phase = "set"
    /\ LET h == Head(handlers) IN
       /\ rules' = h.value
       /\ SendAll(<<[type |-> "UPDATE_RULES", rules |-> h.value]>>
                  \o (IF h.type = "UNBLUR_ELEMENT"
                      THEN <<[type |-> "UNBLUR_ELEMENT", rules |-> h.value]>> ELSE <<>>))
    /\ handlers' = Tail(handlers)
    /\ UNCHANGED <<matchVars, roundTripVars, scrollVars, siteVars, viewportVars,
                   buttonVars, debounceVars, isActive, events, rev, regions,
                   globalEnabled, siteSettings, engineVars, pageVars>>

\* The store holds no rule or a rule picked on the page.
InitHandlers ==
    /\ MatchIdle
    /\ UnitIdle
    /\ events = 0
    /\ rev \in {"A", "B"}
    /\ rules \in {<<>>, <<Rule(PatPicked, <<".b", ".a">>, TRUE)>>}
    /\ regions = <<>>
    /\ globalEnabled = TRUE
    /\ siteSettings = NoSiteSettings
    /\ inbox = <<>>
    /\ pc = "init"
    /\ loadResult = NoResult
    /\ currentRules = <<>>
    /\ currentRegions = <<>>
    /\ enabled = TRUE
    /\ blurIntensity = BLUR_ENGINE_DEFAULT_INTENSITY
    /\ hoverToUnblur = FALSE
    /\ debounceTimer = FALSE
    /\ els = [e \in Elems |-> IF e = 1 THEN FreshElement("a", NoFilter) ELSE AbsentElement]
    /\ overlays = <<>>
    /\ frames = <<>>
    /\ pointer = 0

NextHandlers ==
    \/ ReceiveRequest
    \/ HandlerGet
    \/ HandlerSet
    \/ LoadStateRead
    \/ LoadStateResume
    \/ OnUpdateRules
    \/ OnOtherMessage
    \/ DebounceFire
    \/ RunFrame

SpecHandlers == InitHandlers /\ [][NextHandlers]_vars

\* C38: the rules a handler stores are the rules in the store at that
\* moment as its request modifies them, so that no change stored between
\* its get and its set is lost.
C38_NoLostUpdate ==
    [][HandlerSet => rules' = modifiedRules(Head(handlers), rules)]_vars

(***************************************************************************)
(* C39: what an UPDATE_SETTINGS message changes                            *)
(***************************************************************************)

\* The message carries no enabled field, as that of a site-settings change
\* of revision A.
WithoutEnabled(m) == m.enabled = "undef"

\* The message carries neither blurIntensity nor hoverToUnblur, as that of
\* toggleGlobal.
WithoutSiteSettings(m) == m.blurIntensity = 0

\* C39: the UPDATE_SETTINGS handler leaves the enabled flag as it is when
\* the message has no enabled field, and the intensity and the hover
\* setting as they are when the message has neither.
C39_OnlyCarriedSettingsChange ==
    [][OnUpdateSettings =>
          /\ WithoutEnabled(Head(inbox)) => enabled' = enabled
          /\ WithoutSiteSettings(Head(inbox)) =>
                blurIntensity' = blurIntensity /\ hoverToUnblur' = hoverToUnblur]_vars

(***************************************************************************)
(* C40: the listeners of an overlay                                        *)
(***************************************************************************)

\* C40: in every state each overlay carries at most one set of hover and
\* click-forwarding listeners.
C40_OneListenerSetPerOverlay ==
    \A k \in 1..Len(overlays) : overlays[k].listeners <= 1

====
